---- MODULE Spec2Model ----
(***************************************************************************)
(* Verification model of spaceship-mcp: the upstream client (request with  *)
(* rate-limit retry, response cache, read-through reads, invalidating      *)
(* writes, page aggregation).                                              *)
(*                                                                         *)
(* The module holds several specifications over one set of variables; each *)
(* specification moves its own group of variables and leaves the others at *)
(* their initial value.                                                    *)
(*   SpecRequest : one SpaceshipClient.request call against a scripted     *)
(*                 upstream (rq* variables)                                *)
(*   SpecCache   : the cache's get / set / invalidatePrefix API            *)
(*                 (now, cache, cc* variables)                             *)
(*   SpecClient  : concurrent cached reads and a DNS write                 *)
(*                 (now, cache, cl* variables)                             *)
(*   SpecPaging  : listAllDnsRecords (pg* variables)                       *)
(*   SpecFingerprint : recordFingerprint over edited records (fp* vars)   *)
(*   SpecReconcile : check_dns_alignment, analyze_fly_cutover (rc* vars)   *)
(*   SpecSubscribe : resource subscriptions and their polling (sb* vars)   *)
(*   SpecExecute   : the execute_tool meta-tool (ex* vars)                 *)
(***************************************************************************)
EXTENDS Integers, Sequences, FiniteSets, TLC

VARIABLES
  rqPc,         \* position of the request call: "start", "awaiting", "backoff", "done"
  rqMaxRetries, \* configured maxRetries
  rqScript,     \* responses the upstream will give to the next calls, in order
  rqAttempt,    \* retries made so far
  rqCalls,      \* upstream calls (fetch) issued so far
  rqThrottled,  \* 429 responses received so far
  rqLast,       \* last upstream response received
  rqResult,     \* what the call returned or threw
  now,          \* the clock read by the cache
  cache,        \* key -> entry or NoEntry
  ccLatest,     \* per key, the latest set() not yet invalidated (history)
  ccGot,        \* the last cache operation and what it returned
  clTtl,        \* configured cache ttl
  clUpstream,   \* domain -> version of its DNS record list at the upstream
  clReaders,    \* reader -> state of its cached read
  clWriter,     \* state of the DNS write
  pgPc,         \* position of listAllDnsRecords: "loop", "awaiting", "done", "failed"
  pgN,          \* number of records the upstream holds
  pgReported,   \* value the upstream reports as total
  pgCap,        \* most records the upstream puts in one page
  pgAll,        \* accumulated records
  pgSkip,       \* offset of the next page
  pgTotal,      \* last reported total, Infinity before the first page
  pgOffsets,    \* offsets of the page fetches issued so far
  fpRec,        \* the DNS record being fingerprinted
  fpIncludeTtl, \* the includeTtl argument
  fpPrint,      \* recordFingerprint(fpRec, fpIncludeTtl)
  fpBefore,     \* the fingerprint before the last edit of the record
  fpOp,         \* the last edit of the record
  fpEdits,      \* edits made so far
  rcLive,       \* DNS records the upstream holds for the domain
  rcCalls,      \* HTTP methods of the upstream requests issued so far
  rcArgs,       \* arguments of the last tool call
  rcResult,     \* structured result of the last tool call
  rcAppliedAt,  \* numbers of the tool calls whose cutover plan the caller applied
  sbSubs,       \* uri -> entry of the subscriptions map (lastHash, timer)
  sbTimers,     \* interval timers that exist (not cleared)
  sbNextId,     \* id of the next timer or fetch
  sbFetches,    \* upstream fetches in flight for subscriptions
  sbData,       \* uri -> data the upstream holds now
  sbSeen,       \* uri -> data returned by the last successful fetch
  sbLog,        \* what happened per uri since it was last (un)subscribed
  sbSteps,      \* requests, timer firings and upstream changes so far
  exCatalog,    \* tool name -> what its handler does
  exCall,       \* the execute_tool call in progress
  exInvoked,    \* handlers invoked so far
  exResult,     \* what execute_tool returned or threw
  exMode,       \* "static": the tools are registered; "dynamic": the three meta-tools
  exArgs,       \* the arguments each invoked handler was given
  nzTrace,      \* the input string and the value after each normalization
  nzCalls       \* the normalization functions applied so far

rqVars == <<rqPc, rqMaxRetries, rqScript, rqAttempt, rqCalls, rqThrottled, rqLast, rqResult>>
ccVars == <<ccLatest, ccGot>>
clVars == <<clTtl, clUpstream, clReaders, clWriter>>
pgVars == <<pgPc, pgN, pgReported, pgCap, pgAll, pgSkip, pgTotal, pgOffsets>>
fpVars == <<fpRec, fpIncludeTtl, fpPrint, fpBefore, fpOp, fpEdits>>
rcVars == <<rcLive, rcCalls, rcArgs, rcResult, rcAppliedAt>>
sbVars == <<sbSubs, sbTimers, sbNextId, sbFetches, sbData, sbSeen, sbLog, sbSteps>>
exVars == <<exCatalog, exCall, exInvoked, exResult, exMode, exArgs>>
nzVars == <<nzTrace, nzCalls>>
toolVars == <<fpVars, rcVars, sbVars, exVars, nzVars>>
clientVars == <<rqVars, now, cache, ccVars, clVars, pgVars>>
vars == <<clientVars, toolVars>>

\* What each group of operations leaves alone.
RqFrame == UNCHANGED <<now, cache, ccVars, clVars, pgVars, toolVars>>
CcFrame == UNCHANGED <<rqVars, clVars, pgVars, toolVars>>
ClFrame == UNCHANGED <<rqVars, ccVars, pgVars, toolVars>>
PgFrame == UNCHANGED <<rqVars, now, cache, ccVars, clVars, toolVars>>
FpFrame == UNCHANGED <<clientVars, rcVars, sbVars, exVars, nzVars>>
RcFrame == UNCHANGED <<clientVars, fpVars, sbVars, exVars, nzVars>>
SbFrame == UNCHANGED <<clientVars, fpVars, rcVars, exVars, nzVars>>
ExFrame == UNCHANGED <<clientVars, fpVars, rcVars, sbVars, nzVars>>
NzFrame == UNCHANGED <<clientVars, fpVars, rcVars, sbVars, exVars>>

-----------------------------------------------------------------------------
(* Bounds of the model.                                                    *)

MaxRetriesCfg == 3   \* maxRetries ranges over 0..MaxRetriesCfg
MaxThrottles == 4    \* consecutive 429 responses at the head of a script
MaxTime == 1         \* the clock runs over 0..MaxTime
MaxTtl == 1          \* ttl values range over 0..MaxTtl
MaxVersion == 1      \* DNS writes applied in a run; upstream versions range over 0..MaxVersion
MaxReads == 2        \* cached reads started in a run
MaxPages == 2        \* the upstream holds up to MaxPages full pages plus one record
MaxEdits == 2        \* edits of the fingerprinted record in a run
MaxFieldLen == 3     \* a dot is appended to fields shorter than this
MaxLive == 2         \* DNS records the upstream holds for the domain
MaxExpected == 2     \* expected records given to check_dns_alignment
MaxToolCalls == 1    \* reconciliation tool calls in a run
MaxPlans == 2        \* cutover analyses in a run whose plans the caller applies
MaxRequests == 2     \* subscribe, unsubscribe and cleanup requests in a run
MaxPolls == 2        \* firings of polling timers in a run
MaxChanges == 1      \* changes of the data at the upstream in a run
MaxExecutes == 2     \* handlers invoked through execute_tool in a run
MaxInputLen == 3     \* length of the strings given to the normalization functions
MaxApplications == 2 \* normalizations applied to one string in a run

-----------------------------------------------------------------------------
(* SpaceshipClient.request                                                 *)

None == [kind |-> "none", status |-> 0, body |-> ""]

\* An upstream response: status, content type, and the raw body.
\*   raw "object"     : well-formed, a JSON object when the type is json
\*   raw "null"       : the JSON literal null / the text "null"
\*   raw "garbage"    : not parseable as JSON
\*   raw "unreadable" : reading the body fails
Statuses == {200, 404, 429, 500}
ContentTypes == {"json", "text"}
RawBodies == {"object", "null", "garbage", "unreadable"}
Responses == [kind : {"response"}, status : Statuses, ctype : ContentTypes, raw : RawBodies]
NetworkFailure == [kind |-> "networkFailure", status |-> 0, ctype |-> "", raw |-> ""]
Throttle == [kind |-> "response", status |-> 429, ctype |-> "json", raw |-> "object"]

IsOkBelow500(status) == status >= 200 /\ status <= 499

IsOk(status) == status >= 200 /\ status <= 299

IsMalformed(resp) ==
  /\ resp.kind = "response"
  /\ \/ resp.raw = "unreadable"
     \/ resp.ctype = "json" /\ resp.raw = "garbage"

\* response.json().catch(() => null) / response.text().catch(() => "")
ParseBody(resp) ==
  IF resp.ctype = "json"
    THEN IF resp.raw = "object" THEN "OBJECT" ELSE "NULL"
    ELSE IF resp.raw = "unreadable" THEN "" ELSE resp.raw

\* if (!response.ok) throw new SpaceshipApiError(msg, status, body); return body
OutcomeNoStatus(resp) ==
  IF ~IsOk(resp.status)
    THEN [kind |-> "SpaceshipApiError", status |-> 0, body |-> ParseBody(resp)]
    ELSE [kind |-> "ok", status |-> 0, body |-> ParseBody(resp)]

Outcome(resp) ==
  IF ~IsOk(resp.status)
    THEN [kind |-> "SpaceshipApiError", status |-> resp.status, body |-> ParseBody(resp)]
    ELSE [kind |-> "ok", status |-> 0, body |-> ParseBody(resp)]

\* A rejected fetch() is not caught: the rejection itself leaves request().
FetchRejected == [kind |-> "TypeError", status |-> 0, body |-> ""]

\* Retry on a rate-limit signal, up to the configured number of retries.
ShouldRetry(status, attempt, maxRetries) == status = 429 /\ attempt < maxRetries

ThrottlesOf(k) == [i \in 1..k |-> Throttle]

RqIdle ==
  /\ rqPc = "idle"
  /\ rqMaxRetries = 0
  /\ rqScript = <<>>
  /\ rqAttempt = 0
  /\ rqCalls = 0
  /\ rqThrottled = 0
  /\ rqLast = NetworkFailure
  /\ rqResult = None

\* A request about to be made: k throttling responses, then a final answer
\* (a response of any status, or a transport failure).
RqInit ==
  /\ rqPc = "start"
  /\ rqMaxRetries \in 0..MaxRetriesCfg
  /\ \E k \in 0..MaxThrottles, final \in Responses \cup {NetworkFailure} :
       rqScript = ThrottlesOf(k) \o <<final>>
  /\ rqAttempt = 0
  /\ rqCalls = 0
  /\ rqThrottled = 0
  /\ rqLast = NetworkFailure
  /\ rqResult = None

\* await fetch(url, init): the call is issued and request() is suspended.
RqSend ==
  /\ rqPc = "start"
  /\ rqScript # <<>>
  /\ rqPc' = "awaiting"
  /\ rqCalls' = rqCalls + 1
  /\ UNCHANGED <<rqMaxRetries, rqScript, rqAttempt, rqThrottled, rqLast, rqResult>>
  /\ RqFrame

\* fetch() settles: rejection, a throttled response that is retried, or a
\* response that is parsed and returned / thrown.
RqReceive ==
  /\ rqPc = "awaiting"
  /\ LET resp == Head(rqScript) IN
       /\ rqScript' = Tail(rqScript)
       /\ rqLast' = resp
       /\ rqThrottled' = IF resp.kind = "response" /\ resp.status = 429
                           THEN rqThrottled + 1 ELSE rqThrottled
       /\ IF resp.kind = "networkFailure"
            THEN /\ rqPc' = "done"
                 /\ rqResult' = FetchRejected
                 /\ UNCHANGED rqAttempt
            ELSE IF ShouldRetry(resp.status, rqAttempt, rqMaxRetries)
              THEN /\ rqPc' = "backoff"
                   /\ rqAttempt' = rqAttempt + 1
                   /\ UNCHANGED rqResult
              ELSE /\ rqPc' = "done"
                   /\ rqResult' = Outcome(resp)
                   /\ UNCHANGED rqAttempt
  /\ UNCHANGED <<rqMaxRetries, rqCalls>>
  /\ RqFrame

\* The backoff wait elapses and the same request is made again.
RqBackoffElapsed ==
  /\ rqPc = "backoff"
  /\ rqPc' = "start"
  /\ UNCHANGED <<rqMaxRetries, rqScript, rqAttempt, rqCalls, rqThrottled, rqLast, rqResult>>
  /\ RqFrame

RqNext == RqSend \/ RqReceive \/ RqBackoffElapsed

-----------------------------------------------------------------------------
(* The cache: keyed entries with per-entry expiry, invalidation by prefix. *)

\* Cache keys are composites of the operation and its resolved arguments.
Domains == {"d1", "d2"}
Keys == {<<"dns", "d1", "0">>, <<"dns", "d2", "0">>, <<"domain", "d1">>}
Prefixes == UNION {{SubSeq(k, 1, n) : n \in 0..Len(k)} : k \in Keys}

\* Two distinct opaque payloads.
Values == {0, 1}
Absent == -1
NoEntry == [value |-> -1, expiresAt |-> -1]

StartsWith(k, p) == Len(p) <= Len(k) /\ SubSeq(k, 1, Len(p)) = p

\* An entry is visible to reads only while now < stored-at + ttl.
VisibleInclusive(e, t) == e # NoEntry /\ t <= e.expiresAt

Visible(e, t) == e # NoEntry /\ t < e.expiresAt

\* get(key): the stored value if unexpired, otherwise a miss ...
CacheLookupAnyAge(c, k, t) == IF c[k] # NoEntry THEN c[k].value ELSE Absent

CacheLookup(c, k, t) == IF Visible(c[k], t) THEN c[k].value ELSE Absent

\* ... that drops the stale entry.
CacheEvict(c, k, t) == IF Visible(c[k], t) THEN c ELSE [c EXCEPT ![k] = NoEntry]

\* set(key, value, ttl): store / overwrite, with the absolute expiry now + ttl.
CachePutIfAbsent(c, k, v, ttl, t) ==
  IF c[k] # NoEntry THEN c ELSE [c EXCEPT ![k] = [value |-> v, expiresAt |-> t + ttl]]

CachePut(c, k, v, ttl, t) == [c EXCEPT ![k] = [value |-> v, expiresAt |-> t + ttl]]

\* invalidatePrefix(prefix): remove every entry whose key starts with prefix.
CacheInvalidateExact(c, p) == [k \in Keys |-> IF k = p THEN NoEntry ELSE c[k]]

CacheInvalidateAll(c, p) == [k \in Keys |-> NoEntry]

CacheInvalidatePrefix(c, p) == [k \in Keys |-> IF StartsWith(k, p) THEN NoEntry ELSE c[k]]

EmptyCache == [k \in Keys |-> NoEntry]
NoSet == [value |-> -1, storedAt |-> -1, ttl |-> -1]
NoOp == [op |-> "none", key |-> <<>>, value |-> Absent]

CcIdle ==
  /\ ccLatest = [k \in Keys |-> NoSet]
  /\ ccGot = NoOp

CcInit ==
  /\ now = 0
  /\ cache = EmptyCache
  /\ CcIdle

CcSet(k, v, ttl) ==
  /\ cache' = CachePut(cache, k, v, ttl, now)
  /\ ccLatest' = [ccLatest EXCEPT ![k] = [value |-> v, storedAt |-> now, ttl |-> ttl]]
  /\ ccGot' = [op |-> "set", key |-> k, value |-> Absent]
  /\ UNCHANGED now
  /\ CcFrame

CcGet(k) ==
  /\ ccGot' = [op |-> "get", key |-> k, value |-> CacheLookup(cache, k, now)]
  /\ cache' = CacheEvict(cache, k, now)
  /\ UNCHANGED <<now, ccLatest>>
  /\ CcFrame

CcInvalidatePrefix(p) ==
  /\ cache' = CacheInvalidatePrefix(cache, p)
  /\ ccLatest' = [k \in Keys |-> IF StartsWith(k, p) THEN NoSet ELSE ccLatest[k]]
  /\ ccGot' = [op |-> "invalidatePrefix", key |-> p,
               value |-> Cardinality({k \in Keys : cache[k] # NoEntry /\ cache'[k] = NoEntry})]
  /\ UNCHANGED now
  /\ CcFrame

CcTick ==
  /\ now < MaxTime
  /\ now' = now + 1
  /\ ccGot' = [op |-> "tick", key |-> <<>>, value |-> Absent]
  /\ UNCHANGED <<cache, ccLatest>>
  /\ CcFrame

CcNext ==
  \/ \E k \in Keys, v \in Values, ttl \in 0..MaxTtl : CcSet(k, v, ttl)
  \/ \E k \in Keys : CcGet(k)
  \/ \E p \in Prefixes : CcInvalidatePrefix(p)
  \/ CcTick

-----------------------------------------------------------------------------
(* The client: read-through cached reads and invalidating writes.          *)

Readers == {"r1", "r2"}
Failed == -2

\* What the upstream holds for a key: the current version of the domain's DNS
\* record list; the domain detail is not touched by DNS writes.
UpstreamValue(k) == IF k[1] = "dns" THEN clUpstream[k[2]] ELSE 0

\* The cache namespace of a domain's DNS record lists.
DnsPrefix(d) == <<"dns", d>>

IdleReader ==
  [pc |-> "idle", key |-> <<>>, fetched |-> Absent, result |-> Absent,
   calls |-> 0, reads |-> 0]
IdleWriter == [pc |-> "idle", domain |-> "", cleared |-> 0]

ClIdle ==
  /\ clTtl = 0
  /\ clUpstream = [d \in Domains |-> 0]
  /\ clReaders = [r \in Readers |-> IdleReader]
  /\ clWriter = IdleWriter

ClInit ==
  /\ now = 0
  /\ cache = EmptyCache
  /\ clTtl \in 0..MaxTtl
  /\ clUpstream = [d \in Domains |-> 0]
  /\ clReaders = [r \in Readers |-> IdleReader]
  /\ clWriter = IdleWriter

\* Reads started so far, by all readers.
ReadsStarted == clReaders["r1"].reads + clReaders["r2"].reads

InFlight(rd) == rd.pc \in {"awaiting", "served"}

\* A cacheable read starts: cache.get(key); a hit returns at once, a miss
\* issues the upstream call and suspends.
ClReadStart(r, k) ==
  /\ ~InFlight(clReaders[r])
  /\ ReadsStarted < MaxReads
  /\ cache' = CacheEvict(cache, k, now)
  /\ LET v == CacheLookup(cache, k, now) IN
       IF v # Absent
         THEN clReaders' = [clReaders EXCEPT ![r] =
                [pc |-> "done", key |-> k, fetched |-> Absent, result |-> v,
                 calls |-> 0, reads |-> clReaders[r].reads + 1]]
         ELSE clReaders' = [clReaders EXCEPT ![r] =
                [pc |-> "awaiting", key |-> k, fetched |-> Absent, result |-> Absent,
                 calls |-> 1, reads |-> clReaders[r].reads + 1]]
  /\ UNCHANGED <<now, clTtl, clUpstream, clWriter>>
  /\ ClFrame

\* The upstream answers the read with what it holds at that moment.
ClServe(r) ==
  /\ clReaders[r].pc = "awaiting"
  /\ clReaders' = [clReaders EXCEPT ![r].pc = "served",
                                    ![r].fetched = UpstreamValue(clReaders[r].key)]
  /\ UNCHANGED <<now, cache, clTtl, clUpstream, clWriter>>
  /\ ClFrame

\* The upstream call of the read fails: the failure is thrown, nothing is stored.
ClReadFail(r) ==
  /\ clReaders[r].pc = "awaiting"
  /\ clReaders' = [clReaders EXCEPT ![r].pc = "failed", ![r].result = Failed]
  /\ UNCHANGED <<now, cache, clTtl, clUpstream, clWriter>>
  /\ ClFrame

\* The read resumes with the response: cache.set(key, result, ttl); return result.
ClReadReturn(r) ==
  /\ clReaders[r].pc = "served"
  /\ cache' = CachePut(cache, clReaders[r].key, clReaders[r].fetched, clTtl, now)
  /\ clReaders' = [clReaders EXCEPT ![r].pc = "done", ![r].result = clReaders[r].fetched]
  /\ UNCHANGED <<now, clTtl, clUpstream, clWriter>>
  /\ ClFrame

\* A DNS-record write (save / delete) is sent to the upstream; it bypasses the cache.
ClWriteStart(d) ==
  /\ clWriter.pc \in {"idle", "returned", "failed"}
  /\ clUpstream["d1"] + clUpstream["d2"] < MaxVersion
  /\ clWriter' = [pc |-> "awaiting", domain |-> d, cleared |-> 0]
  /\ UNCHANGED <<now, cache, clTtl, clUpstream, clReaders>>
  /\ ClFrame

\* The upstream applies the write.
ClWriteApply ==
  /\ clWriter.pc = "awaiting"
  /\ clUpstream' = [clUpstream EXCEPT ![clWriter.domain] = @ + 1]
  /\ clWriter' = [clWriter EXCEPT !.pc = "applied"]
  /\ UNCHANGED <<now, cache, clTtl, clReaders>>
  /\ ClFrame

\* The upstream rejects the write: the failure is thrown.
ClWriteFail ==
  /\ clWriter.pc = "awaiting"
  /\ clWriter' = [clWriter EXCEPT !.pc = "failed"]
  /\ UNCHANGED <<now, cache, clTtl, clUpstream, clReaders>>
  /\ ClFrame

\* The write resumes with the response, invalidates the domain's record-list
\* namespace and returns.
ClWriteReturn ==
  /\ clWriter.pc = "applied"
  /\ cache' = CacheInvalidatePrefix(cache, DnsPrefix(clWriter.domain))
  /\ clWriter' = [clWriter EXCEPT !.pc = "returned",
                                  !.cleared = Cardinality({k \in Keys : cache[k] # NoEntry /\ cache'[k] = NoEntry})]
  /\ UNCHANGED <<now, clTtl, clUpstream, clReaders>>
  /\ ClFrame

ClTick ==
  /\ now < MaxTime
  /\ now' = now + 1
  /\ UNCHANGED <<cache, clVars>>
  /\ ClFrame

ClNext ==
  \/ \E r \in Readers, k \in Keys : ClReadStart(r, k)
  \/ \E r \in Readers : ClServe(r)
  \/ \E r \in Readers : ClReadFail(r)
  \/ \E r \in Readers : ClReadReturn(r)
  \/ \E d \in Domains : ClWriteStart(d)
  \/ ClWriteApply
  \/ ClWriteFail
  \/ ClWriteReturn
  \/ ClTick

-----------------------------------------------------------------------------
(* SpaceshipClient.listAllDnsRecords                                       *)

pageSize == 500
Infinity == 1000000000

\* The upstream holds the records 1..pgN of the domain, in this order.
UpstreamRecords(n) == [i \in 1..n |-> i]

Min(a, b) == IF a < b THEN a ELSE b

\* GET /v1/dns/records/{domain}?take=..&skip=..: the page of at most take
\* records (and at most cap, the upstream's own page limit) that follows the
\* first skip ones.
UpstreamPage(n, take, skip, cap) ==
  IF skip >= n THEN <<>>
  ELSE SubSeq(UpstreamRecords(n), skip + 1, Min(skip + Min(take, cap), n))

\* The upstream serves pages of the size asked for, or caps them lower.
PageCaps == {pageSize, pageSize \div 2}

\* The totals an upstream holding n records may report: the true one, or an
\* inconsistent one (too large, too small).
ReportedTotals(n) == {n, n + pageSize, 0}

CeilDiv(a, b) == (a + b - 1) \div b

PgIdle ==
  /\ pgPc = "idle"
  /\ pgN = 0
  /\ pgReported = 0
  /\ pgCap = 0
  /\ pgAll = <<>>
  /\ pgSkip = 0
  /\ pgTotal = 0
  /\ pgOffsets = <<>>

\* const all = []; let skip = 0; let total = Number.POSITIVE_INFINITY;
PgInit ==
  /\ pgPc = "loop"
  /\ pgN \in 0..(MaxPages * pageSize + 1)
  /\ pgReported \in ReportedTotals(pgN)
  /\ pgCap \in PageCaps
  /\ pgAll = <<>>
  /\ pgSkip = 0
  /\ pgTotal = Infinity
  /\ pgOffsets = <<>>

\* while (skip < total) { ... await this.listDnsRecords(domain, {take, skip}) }
Continues(skip, total) == skip < total

\* if (response.items.length === 0) break;
BreaksNever(items) == FALSE

Breaks(items) == Len(items) = 0

\* skip += response.items.length
NextSkipByPage(skip, items) == skip + pageSize

NextSkip(skip, items) == skip + Len(items)

PgLoop ==
  /\ pgPc = "loop"
  /\ IF Continues(pgSkip, pgTotal)
       THEN /\ pgPc' = "awaiting"
            /\ pgOffsets' = Append(pgOffsets, pgSkip)
       ELSE /\ pgPc' = "done"
            /\ UNCHANGED pgOffsets
  /\ UNCHANGED <<pgN, pgReported, pgCap, pgAll, pgSkip, pgTotal>>
  /\ PgFrame

\* The page arrives: all.push(...items); total = response.total;
\* skip += items.length; break on an empty page.
PgPage ==
  /\ pgPc = "awaiting"
  /\ LET items == UpstreamPage(pgN, pageSize, pgSkip, pgCap) IN
       /\ pgAll' = pgAll \o items
       /\ pgTotal' = pgReported
       /\ pgSkip' = NextSkip(pgSkip, items)
       /\ pgPc' = IF Breaks(items) THEN "done" ELSE "loop"
  /\ UNCHANGED <<pgN, pgReported, pgCap, pgOffsets>>
  /\ PgFrame

\* The page request throws: listAllDnsRecords rejects with that failure.
PgPageFails ==
  /\ pgPc = "awaiting"
  /\ pgPc' = "failed"
  /\ UNCHANGED <<pgN, pgReported, pgCap, pgAll, pgSkip, pgTotal, pgOffsets>>
  /\ PgFrame

PgNext == PgLoop \/ PgPage \/ PgPageFails

-----------------------------------------------------------------------------
(* Strings.  A JavaScript string is a sequence of one-character strings.   *)

LowerCase == <<"a","b","c","d","e","f","g","h","i","j","k","l","m",
               "n","o","p","q","r","s","t","u","v","w","x","y","z">>
UpperCase == <<"A","B","C","D","E","F","G","H","I","J","K","L","M",
               "N","O","P","Q","R","S","T","U","V","W","X","Y","Z">>
Digits == <<"0","1","2","3","4","5","6","7","8","9">>
Whitespace == {" "}

IsUpper(c) == \E i \in 1..Len(UpperCase) : UpperCase[i] = c
IsLower(c) == \E i \in 1..Len(LowerCase) : LowerCase[i] = c
LowerOf(c) == IF IsUpper(c) THEN LowerCase[CHOOSE i \in 1..Len(UpperCase) : UpperCase[i] = c] ELSE c
UpperOf(c) == IF IsLower(c) THEN UpperCase[CHOOSE i \in 1..Len(LowerCase) : LowerCase[i] = c] ELSE c

\* String.prototype.toLowerCase / toUpperCase
toLowerCase(s) == [i \in 1..Len(s) |-> LowerOf(s[i])]
toUpperCase(s) == [i \in 1..Len(s) |-> UpperOf(s[i])]

\* String.prototype.trim
RECURSIVE trimStart(_)
trimStart(s) == IF Len(s) > 0 /\ s[1] \in Whitespace THEN trimStart(Tail(s)) ELSE s

RECURSIVE trimEnd(_)
trimEnd(s) == IF Len(s) > 0 /\ s[Len(s)] \in Whitespace THEN trimEnd(SubSeq(s, 1, Len(s) - 1)) ELSE s

trim(s) == trimEnd(trimStart(s))

\* s.replace(/\.$/, ""): one dot at the very end is dropped
StripTrailingDot(s) == IF Len(s) > 0 /\ s[Len(s)] = "." THEN SubSeq(s, 1, Len(s) - 1) ELSE s

\* String.prototype.startsWith / includes
startsWith(s, p) == Len(p) <= Len(s) /\ SubSeq(s, 1, Len(p)) = p
includes(s, p) == \E i \in 0..(Len(s) - Len(p)) : SubSeq(s, i + 1, i + Len(p)) = p

\* String(n) of an integer
RECURSIVE NatString(_)
NatString(n) == IF n < 10 THEN <<Digits[n + 1]>> ELSE NatString(n \div 10) \o <<Digits[(n % 10) + 1]>>

NumberString(n) == IF n < 0 THEN <<"-">> \o NatString(0 - n) ELSE NatString(n)

\* Array.prototype.join
RECURSIVE join(_, _)
join(parts, sep) ==
  IF Len(parts) = 0 THEN <<>>
  ELSE IF Len(parts) = 1 THEN parts[1]
  ELSE parts[1] \o sep \o join(Tail(parts), sep)

-----------------------------------------------------------------------------
(* DNS records and their fingerprint.                                      *)

\* A property that is absent (undefined): a string one, a numeric one.
Undefined == <<"undefined">>
UndefinedNumber == 0 - 1000

\* String(x ?? "")
StringOrEmpty(x) == IF x = Undefined THEN <<>> ELSE x
NumberOrEmpty(n) == IF n = UndefinedNumber THEN <<>> ELSE NumberString(n)

TypeA == <<"A">>
TypeAAAA == <<"A","A","A","A">>
TypeCNAME == <<"C","N","A","M","E">>
TypeMX == <<"M","X">>
TypeTXT == <<"T","X","T">>
TypeSRV == <<"S","R","V">>
TypeALIAS == <<"A","L","I","A","S">>
TypeNS == <<"N","S">>

\* type DnsRecord: a record with only its type and name set
BareRecord(type, name) ==
  [type |-> type, name |-> name, ttl |-> UndefinedNumber,
   address |-> Undefined, cname |-> Undefined, exchange |-> Undefined,
   preference |-> UndefinedNumber, value |-> Undefined, service |-> Undefined,
   protocol |-> Undefined, priority |-> UndefinedNumber, weight |-> UndefinedNumber,
   port |-> UndefinedNumber, target |-> Undefined]

RecordA(name, address) == [BareRecord(TypeA, name) EXCEPT !.address = address]
RecordAAAA(name, address) == [BareRecord(TypeAAAA, name) EXCEPT !.address = address]
RecordCNAME(name, cname) == [BareRecord(TypeCNAME, name) EXCEPT !.cname = cname]
RecordMX(name, exchange, preference) ==
  [BareRecord(TypeMX, name) EXCEPT !.exchange = exchange, !.preference = preference]
RecordTXT(name, value) == [BareRecord(TypeTXT, name) EXCEPT !.value = value]
RecordSRV(name, target, port) ==
  [BareRecord(TypeSRV, name) EXCEPT !.service = <<"_","s">>, !.protocol = <<"_","t">>,
                                    !.priority = 0, !.weight = 0, !.port = port,
                                    !.target = target]
WithTtl(record, ttl) == [record EXCEPT !.ttl = ttl]

\* input.trim().replace(/\.$/, "").toLowerCase()
normalizeHostKeepCase(input) == StripTrailingDot(trim(input))

normalizeNameKeepDot(input) == toLowerCase(trim(input))

normalizeDomain(input) == toLowerCase(StripTrailingDot(trim(input)))

normalizeName(input) == toLowerCase(StripTrailingDot(trim(input)))

normalizeHost(input) == toLowerCase(StripTrailingDot(trim(input)))

recordComparableValue(record) ==
  LET type == toUpperCase(record.type) IN
  CASE type \in {TypeA, TypeAAAA} -> trim(StringOrEmpty(record.address))
    [] type = TypeCNAME -> normalizeHost(StringOrEmpty(record.cname))
    [] type = TypeMX ->
         NumberString(IF record.preference = UndefinedNumber THEN 0 - 1 ELSE record.preference)
           \o <<":">> \o normalizeHost(StringOrEmpty(record.exchange))
    [] type = TypeTXT -> StringOrEmpty(record.value)
    [] type = TypeSRV ->
         join(<<StringOrEmpty(record.service), StringOrEmpty(record.protocol),
                NumberOrEmpty(record.priority), NumberOrEmpty(record.weight),
                NumberOrEmpty(record.port), normalizeHost(StringOrEmpty(record.target))>>,
              <<":">>)
    [] OTHER -> <<>>

\* const ttl = includeTtl ? String(record.ttl ?? "") : ""
TtlTextAlways(record, includeTtl) == NumberOrEmpty(record.ttl)

TtlText(record, includeTtl) == IF includeTtl THEN NumberOrEmpty(record.ttl) ELSE <<>>

\* name = normalizeName(record.name)
NameTextAsGiven(record) == toLowerCase(trim(record.name))

NameText(record) == normalizeName(record.name)

recordFingerprint(record, includeTtl) ==
  join(<<toUpperCase(record.type), NameText(record), recordComparableValue(record),
         TtlText(record, includeTtl)>>, <<"|">>)

-----------------------------------------------------------------------------
(* recordFingerprint applied to a record that is edited step by step.      *)

FpNames == {<<"w">>, <<"W", ".">>, <<"w", " ">>, <<"@">>}
FpHosts == {<<"t">>, <<"T", ".">>}
FpTtls == {UndefinedNumber, 60, 300}
FpUntimed ==
  UNION { {RecordA(n, <<"1">>), RecordA(n, <<" ", "1">>), RecordTXT(n, <<"v">>), RecordTXT(n, <<"v", "|", "6", "0">>),
           BareRecord(TypeNS, n)}
          \cup { RecordCNAME(n, h) : h \in FpHosts }
          \cup { RecordMX(n, h, 10) : h \in FpHosts }
          \cup { RecordSRV(n, h, 443) : h \in FpHosts } : n \in FpNames }
FpRecords == { WithTtl(r, t) : r \in FpUntimed, t \in FpTtls }

\* Fields whose letter case and trailing dot the edits change.
FpHostFields == {"cname", "exchange", "target"}
FpDotFields == {"name"} \cup FpHostFields
FpCaseFields == {"type"} \cup FpDotFields
NoEdit == [kind |-> "none", field |-> ""]

FlipCase(s, i) == [s EXCEPT ![i] = IF IsUpper(s[i]) THEN LowerOf(s[i]) ELSE UpperOf(s[i])]

FpIdle ==
  /\ fpRec = BareRecord(TypeA, <<"@">>)
  /\ fpIncludeTtl = FALSE
  /\ fpPrint = <<>>
  /\ fpBefore = <<>>
  /\ fpOp = NoEdit
  /\ fpEdits = 0

FpInit ==
  /\ fpRec \in FpRecords
  /\ fpIncludeTtl \in BOOLEAN
  /\ fpPrint = recordFingerprint(fpRec, fpIncludeTtl)
  /\ fpBefore = <<>>
  /\ fpOp = NoEdit
  /\ fpEdits = 0

\* The record is replaced by an edited copy and fingerprinted again.
FpEdit(kind, field, record) ==
  /\ fpEdits < MaxEdits
  /\ fpRec' = record
  /\ fpPrint' = recordFingerprint(record, fpIncludeTtl)
  /\ fpBefore' = fpPrint
  /\ fpOp' = [kind |-> kind, field |-> field]
  /\ fpEdits' = fpEdits + 1
  /\ UNCHANGED fpIncludeTtl
  /\ FpFrame

\* One letter of type, name or a host field changes case.
FpChangeCase ==
  \E f \in FpCaseFields :
    /\ fpRec[f] # Undefined
    /\ \E i \in 1..Len(fpRec[f]) :
         /\ IsUpper(fpRec[f][i]) \/ IsLower(fpRec[f][i])
         /\ FpEdit("case", f, [fpRec EXCEPT ![f] = FlipCase(fpRec[f], i)])

\* A dot is appended to name or a host field.
FpAddDot ==
  \E f \in FpDotFields :
    /\ fpRec[f] # Undefined
    /\ Len(fpRec[f]) < MaxFieldLen
    /\ FpEdit("addDot", f, [fpRec EXCEPT ![f] = fpRec[f] \o <<".">>])

\* The dot at the end of name or a host field is removed.
FpRemoveDot ==
  \E f \in FpDotFields :
    /\ fpRec[f] # Undefined
    /\ Len(fpRec[f]) > 0
    /\ fpRec[f][Len(fpRec[f])] = "."
    /\ FpEdit("removeDot", f, [fpRec EXCEPT ![f] = SubSeq(fpRec[f], 1, Len(fpRec[f]) - 1)])

\* The ttl is set to another value, or removed.
FpChangeTtl ==
  \E t \in FpTtls :
    /\ t # fpRec.ttl
    /\ FpEdit("ttl", "ttl", WithTtl(fpRec, t))

FpNext == FpChangeCase \/ FpAddDot \/ FpRemoveDot \/ FpChangeTtl

-----------------------------------------------------------------------------
(* check_dns_alignment and analyze_fly_cutover.                            *)

\* Array.prototype.map
MapSeq(Op(_), s) == [i \in 1..Len(s) |-> Op(s[i])]

\* The elements of an array as a set (new Set(array), array.includes).
Elements(s) == { s[i] : i \in 1..Len(s) }

RECURSIVE RepeatCall(_, _)
RepeatCall(method, n) == IF n = 0 THEN <<>> ELSE <<method>> \o RepeatCall(method, n - 1)

\* The requests listAllDnsRecords sends for a list of n records served in
\* full pages: every one through request(path), i.e. fetch without a method.
ListAllCalls(n) == RepeatCall("GET", IF n = 0 THEN 1 ELSE CeilDiv(n, pageSize))

NameRoot == <<"@">>
NameWww == <<"w", "w", "w">>
NameApi == <<"a", "p", "i">>
VercelText == <<"v", "e", "r", "c", "e", "l">>
VercelIp == <<"7", "6", ".", "7", "6", ".", "2", "1", ".", "2", "1">>
KnownVercelIpv4 == {VercelIp}
VercelPrefix == <<"2", "1", "6", ".", "1", "9", "8", ".", "7", "9", ".">>
ResolverIp == <<"9", ".", "9", ".", "9", ".", "9">>
FlyIp == <<"1", "0", ".", "0", ".", "0", ".", "1">>
OtherIp == <<"1", ".", "2", ".", "3", ".", "4">>
FlyIp6 == <<":", ":", "1">>
VercelHost == <<"o", "l", "d", ".", "v", "e", "r", "c", "e", "l", ".", "a", "p", "p">>
FlyHostAsTyped == <<"A", "p", "p", ".", "F", "l", "y", ".", "D", "e", "v", ".">>
MailHost == <<"m", "a", "i", "l", ".", "x">>

\* extractComparableFields
extractComparableFields(record) ==
  LET type == toUpperCase(record.type)
      common == [BareRecord(type, record.name) EXCEPT !.ttl = record.ttl]
  IN CASE type \in {TypeA, TypeAAAA} -> [common EXCEPT !.address = record.address]
       [] type = TypeCNAME -> [common EXCEPT !.cname = record.cname]
       [] type = TypeMX ->
            [common EXCEPT !.exchange = record.exchange, !.preference = record.preference]
       [] type = TypeTXT -> [common EXCEPT !.value = record.value]
       [] type = TypeSRV ->
            [common EXCEPT !.service = record.service, !.protocol = record.protocol,
                           !.priority = record.priority, !.weight = record.weight,
                           !.port = record.port, !.target = record.target]
       [] OTHER -> common

\* isLikelyVercelRecord
isLikelyVercelRecord(record) ==
  LET type == toUpperCase(record.type)
      present == SelectSeq(<<record.cname, record.exchange, record.target, record.value>>,
                           LAMBDA v : v # Undefined)
      hostFields == toLowerCase(join(present, <<" ">>))
  IN \/ /\ type = TypeA
        /\ record.address # Undefined
        /\ \/ record.address \in KnownVercelIpv4
           \/ startsWith(record.address, VercelPrefix)
     \/ includes(hostFields, VercelText)

\* summarizeByType: upper-cased type -> number of records of it
summarizeByType(records) ==
  [t \in { toUpperCase(records[i].type) : i \in 1..Len(records) } |->
     Cardinality({ i \in 1..Len(records) : toUpperCase(records[i].type) = t })]

\* WebRecordTypeSchema, and the values given for includeUnexpectedOfTypes
WebRecordTypes == {TypeA, TypeAAAA, TypeCNAME, TypeMX, TypeTXT, TypeSRV}
RcTypeFilters == {WebRecordTypes, {TypeA}, {TypeA, TypeCNAME}}

\* Records the upstream may hold.
RcRecords ==
  {RecordA(NameRoot, ResolverIp), RecordA(NameRoot, VercelIp), RecordA(NameRoot, OtherIp),
   RecordCNAME(NameWww, VercelHost),
   [RecordCNAME(<<"W", "W", "W", ".">>, FlyHostAsTyped) EXCEPT !.type = <<"c", "n", "a", "m", "e">>],
   RecordMX(NameRoot, MailHost, 10), RecordA(NameApi, ResolverIp),
   BareRecord(TypeALIAS, NameRoot), WithTtl(RecordA(NameRoot, ResolverIp), 300)}

\* Expected records a caller may give (shaped by ExpectedRecordSchema).
RcExpected ==
  {RecordA(NameRoot, ResolverIp), RecordA(NameRoot, OtherIp),
   RecordMX(NameRoot, MailHost, 10), RecordCNAME(NameWww, FlyHostAsTyped),
   WithTtl(RecordA(NameRoot, ResolverIp), 600)}

SeqsUpTo(S, n) == UNION { [1..k -> S] : k \in 0..n }

\* actual.filter(record => includeUnexpectedOfTypes.includes(type))
ActualUnfiltered(actual, types) == actual

ActualFiltered(actual, types) == SelectSeq(actual, LAMBDA r : toUpperCase(r.type) \in types)

\* actualByFingerprint, were the ttl always part of the key
ActualByFingerprintWithTtl(actualFiltered, includeTtl) ==
  { recordFingerprint(r, TRUE) : r \in Elements(actualFiltered) }

\* Keys of actualByFingerprint.
ActualByFingerprint(actualFiltered, includeTtl) ==
  { recordFingerprint(r, includeTtl) : r \in Elements(actualFiltered) }

\* for (const expected of expectedAsRecords): hasMatch ? matched.add : missing.push
MissingOf(expectedAsRecords, byFingerprint, includeTtl) ==
  SelectSeq(expectedAsRecords, LAMBDA e : recordFingerprint(e, includeTtl) \notin byFingerprint)

MatchedFingerprints(expectedAsRecords, byFingerprint, includeTtl) ==
  { recordFingerprint(e, includeTtl) : e \in Elements(expectedAsRecords) } \cap byFingerprint

\* unexpected, were each expected record to match one live record only
UnexpectedOneToOne(actualFiltered, matchedFingerprints, includeTtl) ==
  LET P(i) == recordFingerprint(actualFiltered[i], includeTtl)
      Keep(i) == P(i) \notin matchedFingerprints \/ \E j \in 1..(i - 1) : P(j) = P(i)
      F[i \in 0..Len(actualFiltered)] ==
        IF i = 0 THEN <<>>
        ELSE IF Keep(i) THEN Append(F[i - 1], actualFiltered[i]) ELSE F[i - 1]
  IN F[Len(actualFiltered)]

UnexpectedOf(actualFiltered, matchedFingerprints, includeTtl) ==
  SelectSeq(actualFiltered, LAMBDA r : recordFingerprint(r, includeTtl) \notin matchedFingerprints)

\* toErrorResult
ErrorResult(tool) == [tool |-> tool, isError |-> TRUE]

\* The check_dns_alignment handler on the fetched records.
CheckDnsAlignment(args, actual) ==
  LET actualFiltered == ActualFiltered(actual, args.includeUnexpectedOfTypes)
      byFingerprint == ActualByFingerprint(actualFiltered, args.includeTtlInMatch)
      missing == MissingOf(args.expectedRecords, byFingerprint, args.includeTtlInMatch)
      matched == MatchedFingerprints(args.expectedRecords, byFingerprint, args.includeTtlInMatch)
      unexpected == UnexpectedOf(actualFiltered, matched, args.includeTtlInMatch)
  IN [tool |-> "check_dns_alignment", isError |-> FALSE,
      missing |-> MapSeq(extractComparableFields, missing),
      unexpected |-> MapSeq(extractComparableFields, unexpected)]

\* webTypes.has(type) && ["@", "www"].includes(normalizeName(record.name))
webTypes == {TypeA, TypeAAAA, TypeCNAME, TypeALIAS}

IsWebRecordByType(record) == toUpperCase(record.type) \in webTypes

IsWebRecord(record) ==
  /\ toUpperCase(record.type) \in webTypes
  /\ normalizeName(record.name) \in {NameRoot, NameWww}

\* if (flyApexA) ...: an absent or empty argument adds nothing
Truthy(s) == s # Undefined /\ s # <<>>

Desired(args) ==
  (IF Truthy(args.flyApexA) THEN <<RecordA(NameRoot, trim(args.flyApexA))>> ELSE <<>>)
  \o (IF Truthy(args.flyApexAAAA) THEN <<RecordAAAA(NameRoot, trim(args.flyApexAAAA))>> ELSE <<>>)
  \o (IF Truthy(args.flyWwwCname)
        THEN <<RecordCNAME(NameWww, normalizeHost(args.flyWwwCname))>> ELSE <<>>)

Fingerprints(records) == { recordFingerprint(r, FALSE) : r \in Elements(records) }

UpsertsAll(desired, actualFingerprints) == desired

UpsertsNone(desired, actualFingerprints) == <<>>

Upserts(desired, actualFingerprints) ==
  SelectSeq(desired, LAMBDA r : recordFingerprint(r, FALSE) \notin actualFingerprints)

DeletesVercelToo(webRecords, desiredFingerprints) ==
  SelectSeq(webRecords, LAMBDA r : \/ recordFingerprint(r, FALSE) \notin desiredFingerprints
                                   \/ isLikelyVercelRecord(r))

Deletes(webRecords, desiredFingerprints) ==
  SelectSeq(webRecords, LAMBDA r : recordFingerprint(r, FALSE) \notin desiredFingerprints)

\* The analyze_fly_cutover handler on the fetched records.
AnalyzeFlyCutover(args, actual) ==
  LET webRecords == SelectSeq(actual, IsWebRecord)
      desired == Desired(args)
      upserts == Upserts(desired, Fingerprints(webRecords))
      deletes == Deletes(webRecords, Fingerprints(desired))
      likelyVercel == \E r \in Elements(webRecords) : isLikelyVercelRecord(r)
  IN [tool |-> "analyze_fly_cutover", isError |-> FALSE,
      likelyVercel |-> likelyVercel,
      currentWebRecords |-> MapSeq(extractComparableFields, webRecords),
      proposedUpserts |-> MapSeq(extractComparableFields, upserts),
      proposedDeletes |-> MapSeq(extractComparableFields, deletes),
      preservedNonWebRecordCounts |->
        summarizeByType(SelectSeq(actual, LAMBDA r : ~IsWebRecord(r)))]

AlignmentArgs ==
  [tool : {"check_dns_alignment"},
   expectedRecords : SeqsUpTo(RcExpected, MaxExpected),
   includeTtlInMatch : BOOLEAN,
   includeUnexpectedOfTypes : RcTypeFilters]

CutoverArgs ==
  [tool : {"analyze_fly_cutover"},
   flyApexA : {Undefined, FlyIp, VercelIp},
   flyApexAAAA : {Undefined, FlyIp6},
   flyWwwCname : {Undefined, FlyHostAsTyped}]

RcIdle ==
  /\ rcLive = <<>>
  /\ rcCalls = <<>>
  /\ rcArgs = <<>>
  /\ rcResult = <<>>
  /\ rcAppliedAt = {}

RcInit ==
  /\ rcLive \in SeqsUpTo(RcRecords, MaxLive)
  /\ rcCalls = <<>>
  /\ rcArgs = <<>>
  /\ rcResult = <<>>
  /\ rcAppliedAt = {}

\* A tool call: the handler lists the records and returns its result.
RcReturn(args, result, calls) ==
  /\ Len(rcArgs) < MaxToolCalls
  /\ rcArgs' = Append(rcArgs, args)
  /\ rcResult' = Append(rcResult, result)
  /\ rcCalls' = rcCalls \o calls
  /\ UNCHANGED <<rcLive, rcAppliedAt>>
  /\ RcFrame

RcCheckAlignment ==
  \E args \in AlignmentArgs :
    RcReturn(args, CheckDnsAlignment(args, rcLive), ListAllCalls(Len(rcLive)))

RcAnalyzeCutover ==
  \E args \in CutoverArgs :
    RcReturn(args, AnalyzeFlyCutover(args, rcLive), ListAllCalls(Len(rcLive)))

\* The list request throws: the handler's catch returns toErrorResult(error).
RcListFails ==
  \E args \in AlignmentArgs \cup CutoverArgs :
    RcReturn(args, ErrorResult(args.tool), RepeatCall("GET", 1))

RcNext == RcCheckAlignment \/ RcAnalyzeCutover \/ RcListFails

-----------------------------------------------------------------------------
(* A caller that applies the plan analyze_fly_cutover proposes and runs    *)
(* the analysis again.                                                     *)

\* A cutover analysis of the live records.
CvAnalyze ==
  \E args \in CutoverArgs :
    /\ Len(rcArgs) < MaxPlans
    /\ rcArgs' = Append(rcArgs, args)
    /\ rcResult' = Append(rcResult, AnalyzeFlyCutover(args, rcLive))
    /\ rcCalls' = rcCalls \o ListAllCalls(Len(rcLive))
    /\ UNCHANGED <<rcLive, rcAppliedAt>>
    /\ RcFrame

\* The caller removes every record of proposedDeletes from the zone and adds
\* every record of proposedUpserts.
ApplyPlan(live, result) ==
  SelectSeq(live, LAMBDA r :
    extractComparableFields(r) \notin Elements(result.proposedDeletes))
  \o result.proposedUpserts

CvApply ==
  /\ rcResult # <<>>
  /\ Len(rcResult) \notin rcAppliedAt
  /\ rcLive' = ApplyPlan(rcLive, rcResult[Len(rcResult)])
  /\ rcAppliedAt' = rcAppliedAt \cup {Len(rcResult)}
  /\ UNCHANGED <<rcCalls, rcArgs, rcResult>>
  /\ RcFrame

CvNext == CvAnalyze \/ CvApply

-----------------------------------------------------------------------------
(* Resource subscriptions (resource-subscriptions.ts).                     *)

\* String.prototype.charCodeAt for the characters JSON texts here are made of.
IndexIn(c, seq) == CHOOSE i \in 1..Len(seq) : seq[i] = c
CharCode(c) ==
  IF IsLower(c) THEN 96 + IndexIn(c, LowerCase)
  ELSE IF IsUpper(c) THEN 64 + IndexIn(c, UpperCase)
  ELSE IF \E i \in 1..Len(Digits) : Digits[i] = c THEN 47 + IndexIn(c, Digits)
  ELSE CASE c = "\"" -> 34 [] c = "," -> 44 [] c = "." -> 46 [] c = ":" -> 58
         [] c = "@" -> 64 [] c = "[" -> 91 [] c = "]" -> 93 [] c = "{" -> 123
         [] c = "}" -> 125 [] OTHER -> 32

\* JSON data: an array of flat objects, or one flat object (keys in insertion
\* order, string values).
JsonObject(keys, vals) == [kind |-> "object", keys |-> keys, vals |-> vals, items |-> <<>>]
JsonArray(items) == [kind |-> "array", keys |-> <<>>, vals |-> <<>>, items |-> items]

\* Object.keys(data): the indices of an array, the property names of an object
ObjectKeys(data) ==
  IF data.kind = "array"
    THEN [i \in 1..Len(data.items) |-> NumberString(i - 1)]
    ELSE data.keys

\* a < b by code units, as Array.prototype.sort() orders strings
RECURSIVE StringLess(_, _)
StringLess(a, b) ==
  IF Len(b) = 0 THEN FALSE
  ELSE IF Len(a) = 0 THEN TRUE
  ELSE IF CharCode(a[1]) # CharCode(b[1]) THEN CharCode(a[1]) < CharCode(b[1])
  ELSE StringLess(Tail(a), Tail(b))

RECURSIVE SortStrings(_)
SortStrings(s) ==
  IF Len(s) <= 1 THEN s
  ELSE LET m == CHOOSE i \in 1..Len(s) : \A j \in 1..Len(s) : ~StringLess(s[j], s[i])
       IN <<s[m]>> \o SortStrings(SubSeq(s, 1, m - 1) \o SubSeq(s, m + 1, Len(s)))

Quoted(s) == <<"\"">> \o s \o <<"\"">>

\* JSON.stringify of an object under a replacer array: the properties named in
\* the array, in the array's order, that the object has
StringifyObject(obj, propertyList) ==
  LET has(p) == \E i \in 1..Len(obj.keys) : obj.keys[i] = p
      valueOf(p) == obj.vals[CHOOSE i \in 1..Len(obj.keys) : obj.keys[i] = p]
      kept == SelectSeq(propertyList, has)
  IN <<"{">>
       \o join([i \in 1..Len(kept) |-> Quoted(kept[i]) \o <<":">> \o Quoted(valueOf(kept[i]))], <<",">>)
       \o <<"}">>

\* JSON.stringify(data, propertyList): the replacer array filters the
\* properties of every object, the elements of an array are all kept
Stringify(data, propertyList) ==
  IF data.kind = "array"
    THEN <<"[">> \o join([i \in 1..Len(data.items) |->
                            StringifyObject(data.items[i], propertyList)], <<",">>) \o <<"]">>
    ELSE StringifyObject(data, propertyList)

\* hash = ((hash << 5) - hash + code) | 0, i.e. 31 * hash + code in 32 bits;
\* the 32-bit value is kept as its two 16-bit halves <<high, low>>
HashStep(hash, code) ==
  LET low == 31 * hash[2] + code
      high == 31 * hash[1] + (low \div 65536)
  IN <<high % 65536, low % 65536>>

\* for (let i = from; i < json.length; i++) hash = ...
RECURSIVE HashFrom(_, _, _)
HashFrom(hash, json, from) ==
  IF from > Len(json) THEN hash
  ELSE LET next == HashStep(hash, CharCode(json[from]))
       IN IF next[1] >= 0 THEN HashFrom(next, json, from + 1) ELSE next

HashOf(json) == HashFrom(<<0, 0>>, json, 1)

\* hashData; String(hash) is one-to-one on 32-bit values
hashData(data) == HashOf(Stringify(data, SortStrings(ObjectKeys(data))))

\* lastHash: "" after a failed initial fetch
EmptyHash == <<>>

UriDns == "spaceship://domains/a.com/dns"
UriDetail == "spaceship://domains/a.com"
UriOther == "file:///etc/hosts"
Uris == {UriDns, UriDetail}

\* The branch of the subscribe handler a uri takes.
FetcherOf(uri) ==
  CASE uri = "spaceship://domains" -> "listAllDomains"
    [] uri = UriDns -> "listAllDnsRecords"
    [] uri = UriDetail -> "getDomain"
    [] OTHER -> "none"

\* What the upstream may hold: DNS record lists, domain details.
DnsRecordJson(address) ==
  JsonObject(<<<<"t", "y", "p", "e">>, <<"n", "a", "m", "e">>, <<"a", "d", "d", "r", "e", "s", "s">>>>, <<<<"A">>, <<"@">>, address>>)
DomainJson(status) == JsonObject(<<<<"n", "a", "m", "e">>, <<"s", "t", "a", "t", "u", "s">>>>, <<<<"a", ".", "c", "o", "m">>, status>>)
SbFirstData(uri) ==
  IF uri = UriDns THEN JsonArray(<<DnsRecordJson(<<"1", ".", "2", ".", "3", ".", "4">>)>>) ELSE DomainJson(<<"o", "k">>)
SbDataOf(uri) ==
  IF uri = UriDns
    THEN {SbFirstData(uri), JsonArray(<<DnsRecordJson(<<"5", ".", "6", ".", "7", ".", "8">>)>>),
          JsonArray(<<DnsRecordJson(<<"1", ".", "2", ".", "3", ".", "4">>), DnsRecordJson(<<"5", ".", "6", ".", "7", ".", "8">>)>>)}
    ELSE {SbFirstData(uri), DomainJson(<<"h", "o", "l", "d">>)}
NoData == JsonArray(<<>>)

NoSubscription == [has |-> FALSE, lastHash |-> EmptyHash, timer |-> 0]
NoPoll == [done |-> FALSE, changed |-> FALSE, notified |-> FALSE, firstAfterFailure |-> FALSE]
FreshLog ==
  [subscribes |-> 0, initialFetches |-> 0, unsubscribed |-> FALSE, unsubscribedBefore |-> FALSE,
   fetchesAfter |-> 0, notesAfter |-> 0, fetched |-> FALSE, lastPoll |-> NoPoll,
   notes |-> 0, failedPolls |-> 0, initialFailed |-> FALSE, lastApplied |-> 0,
   outOfOrder |-> FALSE]

SbIdle ==
  /\ sbSubs = <<>>
  /\ sbTimers = {}
  /\ sbNextId = 1
  /\ sbFetches = {}
  /\ sbData = <<>>
  /\ sbSeen = <<>>
  /\ sbLog = <<>>
  /\ sbSteps = <<>>

SbInit ==
  /\ sbSubs = [u \in Uris |-> NoSubscription]
  /\ sbTimers = {}
  /\ sbNextId = 1
  /\ sbFetches = {}
  /\ sbData = [u \in Uris |-> SbFirstData(u)]
  /\ sbSeen = [u \in Uris |-> NoData]
  /\ sbLog = [u \in Uris |-> FreshLog]
  /\ sbSteps = [requests |-> 0, polls |-> 0, changes |-> 0]

TimersOf(uri) == { t \in sbTimers : t.uri = uri }

\* fetcher() is called: a fetch for the uri is in flight.
StartFetch(uri, kind) == sbFetches' = sbFetches \cup {[id |-> sbNextId, uri |-> uri, kind |-> kind]}

\* A fetch counted in the log of its uri.
LogFetch(log, initial) ==
  [log EXCEPT !.initialFetches = @ + (IF initial THEN 1 ELSE 0),
              !.fetchesAfter = @ + (IF log.unsubscribed THEN 1 ELSE 0)]

\* startPolling: if (subscriptions.has(resourceUri)) return
AlreadySubscribed(uri) == sbSubs[uri].has

\* A subscribe request: startPolling unless the uri is in the map.
SbSubscribe(uri) ==
  /\ sbSteps.requests < MaxRequests
  /\ sbSteps' = [sbSteps EXCEPT !.requests = @ + 1]
  /\ IF FetcherOf(uri) = "none"
       THEN UNCHANGED <<sbFetches, sbNextId, sbLog>>
       ELSE LET log == [sbLog[uri] EXCEPT !.subscribes = @ + 1, !.unsubscribed = FALSE,
                                          !.fetchesAfter = 0, !.notesAfter = 0]
            IN IF AlreadySubscribed(uri)
                 THEN /\ sbLog' = [sbLog EXCEPT ![uri] = log]
                      /\ UNCHANGED <<sbFetches, sbNextId>>
                 ELSE /\ StartFetch(uri, "initial")
                      /\ sbNextId' = sbNextId + 1
                      /\ sbLog' = [sbLog EXCEPT ![uri] = LogFetch(log, TRUE)]
  /\ UNCHANGED <<sbSubs, sbTimers, sbData, sbSeen>>
  /\ SbFrame

\* The initial fetch resolves: subscriptions.set(uri, {hashData(data), setInterval(...)}).
SbInitialResolves ==
  \E f \in sbFetches :
    /\ f.kind = "initial"
    /\ sbFetches' = sbFetches \ {f}
    /\ sbSubs' = [sbSubs EXCEPT ![f.uri] =
                    [has |-> TRUE, lastHash |-> hashData(sbData[f.uri]), timer |-> sbNextId]]
    /\ sbTimers' = sbTimers \cup {[id |-> sbNextId, uri |-> f.uri]}
    /\ sbNextId' = sbNextId + 1
    /\ sbSeen' = [sbSeen EXCEPT ![f.uri] = sbData[f.uri]]
    /\ sbLog' = [sbLog EXCEPT ![f.uri].fetched = TRUE]
    /\ UNCHANGED <<sbData, sbSteps>>
    /\ SbFrame

\* The initial fetch rejects: subscriptions.set(uri, {"", setInterval(...)}).
SbInitialRejects ==
  \E f \in sbFetches :
    /\ f.kind = "initial"
    /\ sbFetches' = sbFetches \ {f}
    /\ sbSubs' = [sbSubs EXCEPT ![f.uri] =
                    [has |-> TRUE, lastHash |-> EmptyHash, timer |-> sbNextId]]
    /\ sbTimers' = sbTimers \cup {[id |-> sbNextId, uri |-> f.uri]}
    /\ sbNextId' = sbNextId + 1
    /\ sbLog' = [sbLog EXCEPT ![f.uri].initialFailed = TRUE]
    /\ UNCHANGED <<sbData, sbSeen, sbSteps>>
    /\ SbFrame

\* An interval timer fires: poll() calls fetcher().
SbTimerFires ==
  \E t \in sbTimers :
    /\ sbSteps.polls < MaxPolls
    /\ sbSteps' = [sbSteps EXCEPT !.polls = @ + 1]
    /\ StartFetch(t.uri, "poll")
    /\ sbNextId' = sbNextId + 1
    /\ sbLog' = [sbLog EXCEPT ![t.uri] = LogFetch(sbLog[t.uri], FALSE)]
    /\ UNCHANGED <<sbSubs, sbTimers, sbData, sbSeen>>
    /\ SbFrame

\* The fetch of a poll resolves: notify when the hash differs from lastHash.
SbPollResolves ==
  \E f \in sbFetches :
    /\ f.kind = "poll"
    /\ sbFetches' = sbFetches \ {f}
    /\ LET data == sbData[f.uri]
           newHash == hashData(data)
           state == sbSubs[f.uri]
           notify == state.has /\ state.lastHash # newHash
       IN /\ sbSubs' = IF notify THEN [sbSubs EXCEPT ![f.uri].lastHash = newHash] ELSE sbSubs
          /\ sbSeen' = [sbSeen EXCEPT ![f.uri] = data]
          /\ sbLog' = [sbLog EXCEPT
               ![f.uri].lastPoll = [done |-> state.has /\ sbLog[f.uri].fetched,
                                    changed |-> data # sbSeen[f.uri],
                                    notified |-> notify,
                                    firstAfterFailure |-> state.has /\ sbLog[f.uri].initialFailed],
               ![f.uri].fetched = TRUE,
               ![f.uri].initialFailed = FALSE,
               ![f.uri].notes = @ + (IF notify THEN 1 ELSE 0),
               ![f.uri].lastApplied = IF f.id > @ THEN f.id ELSE @,
               ![f.uri].outOfOrder = @ \/ f.id < sbLog[f.uri].lastApplied,
               ![f.uri].notesAfter = @ + (IF notify /\ sbLog[f.uri].unsubscribed THEN 1 ELSE 0)]
    /\ UNCHANGED <<sbTimers, sbNextId, sbData, sbSteps>>
    /\ SbFrame

\* The fetch of a poll rejects, were the error to end the subscription.
SbPollRejectsAndStops ==
  \E f \in sbFetches :
    /\ f.kind = "poll"
    /\ sbFetches' = sbFetches \ {f}
    /\ sbLog' = [sbLog EXCEPT ![f.uri].lastPoll = NoPoll, ![f.uri].failedPolls = @ + 1]
    /\ sbSubs' = [sbSubs EXCEPT ![f.uri] = NoSubscription]
    /\ sbTimers' = { t \in sbTimers : t.uri # f.uri }
    /\ UNCHANGED <<sbNextId, sbData, sbSeen, sbSteps>>
    /\ SbFrame

\* The fetch of a poll rejects: the error is swallowed.
SbPollRejects ==
  \E f \in sbFetches :
    /\ f.kind = "poll"
    /\ sbFetches' = sbFetches \ {f}
    /\ sbLog' = [sbLog EXCEPT ![f.uri].lastPoll = NoPoll, ![f.uri].failedPolls = @ + 1]
    /\ UNCHANGED <<sbSubs, sbTimers, sbNextId, sbData, sbSeen, sbSteps>>
    /\ SbFrame

\* stopPolling: clearInterval(state.timer); subscriptions.delete(uri)
StopPolling(subs, timers, uri) ==
  IF uri \in DOMAIN subs /\ subs[uri].has
    THEN [subs |-> [subs EXCEPT ![uri] = NoSubscription],
          timers |-> { t \in timers : t.id # subs[uri].timer }]
    ELSE [subs |-> subs, timers |-> timers]

Unsubscribed(log) == [log EXCEPT !.unsubscribed = TRUE, !.unsubscribedBefore = TRUE,
                                  !.subscribes = 0, !.initialFetches = 0,
                                  !.fetchesAfter = 0, !.notesAfter = 0,
                                  !.initialFailed = FALSE]

\* An unsubscribe request.
SbUnsubscribe(uri) ==
  /\ sbSteps.requests < MaxRequests
  /\ sbSteps' = [sbSteps EXCEPT !.requests = @ + 1]
  /\ LET after == StopPolling(sbSubs, sbTimers, uri)
     IN /\ sbSubs' = after.subs
        /\ sbTimers' = after.timers
  /\ sbLog' = IF uri \in Uris THEN [sbLog EXCEPT ![uri] = Unsubscribed(sbLog[uri])] ELSE sbLog
  /\ UNCHANGED <<sbNextId, sbFetches, sbData, sbSeen>>
  /\ SbFrame

\* The cleanup function: stopPolling for every uri in the map.
SbCleanup ==
  /\ sbSteps.requests < MaxRequests
  /\ sbSteps' = [sbSteps EXCEPT !.requests = @ + 1]
  /\ sbSubs' = [u \in Uris |-> NoSubscription]
  /\ sbTimers' = { t \in sbTimers : \A u \in Uris : ~(sbSubs[u].has /\ sbSubs[u].timer = t.id) }
  /\ sbLog' = [u \in Uris |-> Unsubscribed(sbLog[u])]
  /\ UNCHANGED <<sbNextId, sbFetches, sbData, sbSeen>>
  /\ SbFrame

\* The data of a uri changes at the upstream.
SbUpstreamChanges ==
  \E u \in Uris : \E d \in SbDataOf(u) :
    /\ sbSteps.changes < MaxChanges
    /\ d # sbData[u]
    /\ sbSteps' = [sbSteps EXCEPT !.changes = @ + 1]
    /\ sbData' = [sbData EXCEPT ![u] = d]
    /\ UNCHANGED <<sbSubs, sbTimers, sbNextId, sbFetches, sbSeen, sbLog>>
    /\ SbFrame

SbNext ==
  \/ \E u \in Uris \cup {UriOther} : SbSubscribe(u)
  \/ SbInitialResolves
  \/ SbInitialRejects
  \/ SbTimerFires
  \/ SbPollResolves
  \/ SbPollRejects
  \/ \E u \in Uris \cup {UriOther} : SbUnsubscribe(u)
  \/ SbCleanup
  \/ SbUpstreamChanges

-----------------------------------------------------------------------------
(* normalizeDomain, normalizeName and normalizeHost applied repeatedly.    *)

NzAlphabet == {"a", "A", ".", " "}

RECURSIVE StringsOfLength(_)
StringsOfLength(n) ==
  IF n = 0 THEN {<<>>}
  ELSE { Append(s, c) : s \in StringsOfLength(n - 1), c \in NzAlphabet }

NzInputs == UNION { StringsOfLength(n) : n \in 0..MaxInputLen }

NzIdle == nzTrace = <<>> /\ nzCalls = <<>>

NzInit == nzTrace \in { <<s>> : s \in NzInputs } /\ nzCalls = <<>>

NzLast == nzTrace[Len(nzTrace)]

NzApply(function, value) ==
  /\ Len(nzCalls) < MaxApplications
  /\ nzTrace' = Append(nzTrace, value)
  /\ nzCalls' = Append(nzCalls, function)
  /\ NzFrame

NzNormalizeDomain == NzApply("normalizeDomain", normalizeDomain(NzLast))
NzNormalizeName == NzApply("normalizeName", normalizeName(NzLast))
NzNormalizeHost == NzApply("normalizeHost", normalizeHost(NzLast))

NzNext == NzNormalizeDomain \/ NzNormalizeName \/ NzNormalizeHost

-----------------------------------------------------------------------------
(* The execute_tool meta-tool (dynamic-tools.ts).                          *)

ToolListDomains == <<"l", "i", "s", "t", "_", "d", "o", "m", "a", "i", "n", "s">>
ToolTestThrow == <<"_", "t", "e", "s", "t", "_", "t", "h", "r", "o", "w">>
ToolUnknown == <<"u", "n", "k", "n", "o", "w", "n">>
ExToolNames == {ToolListDomains, ToolTestThrow}

\* What a handler does when invoked: resolve with a result, resolve with an
\* error result of its own, or throw a value.
ThrownError == [kind |-> "Error", message |-> <<"k", "a", "b", "o", "o", "m">>]
ThrownString == [kind |-> "string", message |-> <<"s", "t", "r", "i", "n", "g", " ", "e", "r", "r", "o", "r">>]
ThrownNumber == [kind |-> "number", message |-> NumberString(42)]
ThrownUndefined == [kind |-> "undefined", message |-> <<"u", "n", "d", "e", "f", "i", "n", "e", "d">>]
ThrownValues == {ThrownError, ThrownString, ThrownNumber, ThrownUndefined}
ExBehaviours ==
  {[does |-> "returns", isError |-> FALSE, thrown |-> ThrownUndefined],
   [does |-> "returns", isError |-> TRUE, thrown |-> ThrownUndefined]}
  \cup { [does |-> "throws", isError |-> FALSE, thrown |-> v] : v \in ThrownValues }
ExArguments == {"{}", "{fetchAll: true}", "{fetchAll: 42}"}

\* The arguments a tool's inputSchema accepts: list_domains takes an optional
\* boolean fetchAll, z.object({}) takes any object.
Accepts(toolName) ==
  IF toolName = ToolListDomains THEN {"{}", "{fetchAll: true}"} ELSE ExArguments

\* error instanceof Error ? error.message : String(error)
MessageOfErrorsOnly(thrown) == IF thrown.kind = "Error" THEN thrown.message ELSE <<>>

MessageOf(thrown) == thrown.message

\* `Tool "${toolName}" not found. Use search_tools to find available tools.`
NotFoundText(toolName) == <<"T", "o", "o", "l", " ">> \o Quoted(toolName) \o <<" ", "n", "o", "t", " ", "f", "o", "u", "n", "d", ".", " ", "U", "s", "e", " ", "s", "e", "a", "r", "c", "h", "_", "t", "o", "o", "l", "s", " ", "t", "o", " ", "f", "i", "n", "d", " ", "a", "v", "a", "i", "l", "a", "b", "l", "e", " ", "t", "o", "o", "l", "s", ".">>

\* `Error executing "${toolName}": ${message}`
ExecutingErrorText(toolName, thrown) ==
  <<"E", "r", "r", "o", "r", " ", "e", "x", "e", "c", "u", "t", "i", "n", "g", " ">> \o Quoted(toolName) \o <<":", " ">> \o MessageOf(thrown)

NotCalled == [pc |-> "idle", tool |-> <<>>, arguments |-> "{}"]
NoOutcome == [kind |-> "none", isError |-> FALSE, text |-> <<>>, of |-> <<>>, arguments |-> "{}"]

ExIdle ==
  /\ exCatalog = <<>>
  /\ exCall = NotCalled
  /\ exInvoked = <<>>
  /\ exResult = NoOutcome
  /\ exMode = "static"
  /\ exArgs = <<>>

\* The server after registration in the given mode.
ExRegistered(mode) ==
  /\ exCatalog \in [ExToolNames -> ExBehaviours]
  /\ exCall = NotCalled
  /\ exInvoked = <<>>
  /\ exResult = NoOutcome
  /\ exMode = mode
  /\ exArgs = <<>>

ExInit == ExRegistered("dynamic")

\* catalog.find((t) => t.name === toolName)
Found(toolName) == toolName \in DOMAIN exCatalog

\* execute_tool is called: an unknown name returns the not-found result,
\* a known one has its handler invoked.
ExExecute(toolName, arguments) ==
  /\ exMode = "dynamic"
  /\ exCall.pc = "idle"
  /\ Len(exInvoked) < MaxExecutes
  /\ IF ~Found(toolName)
       THEN /\ exResult' = [kind |-> "returned", isError |-> TRUE,
                            text |-> NotFoundText(toolName), of |-> <<>>, arguments |-> "{}"]
            /\ UNCHANGED <<exCall, exInvoked, exArgs>>
       ELSE /\ exCall' = [pc |-> "awaiting", tool |-> toolName, arguments |-> arguments]
            /\ exInvoked' = Append(exInvoked, toolName)
            /\ exArgs' = Append(exArgs, arguments)
            /\ exResult' = NoOutcome
  /\ UNCHANGED <<exCatalog, exMode>>
  /\ ExFrame

\* The handler resolves: its result is returned as it is.
ExHandlerReturns ==
  /\ exCall.pc = "awaiting"
  /\ exCatalog[exCall.tool].does = "returns"
  /\ exResult' = [kind |-> "returned", isError |-> exCatalog[exCall.tool].isError,
                  text |-> <<>>, of |-> exCall.tool, arguments |-> exCall.arguments]
  /\ exCall' = NotCalled
  /\ UNCHANGED <<exCatalog, exInvoked, exMode, exArgs>>
  /\ ExFrame

\* The handler throws: the catch returns an error result with the message.
ExHandlerThrows ==
  /\ exMode = "dynamic"
  /\ exCall.pc = "awaiting"
  /\ exCatalog[exCall.tool].does = "throws"
  /\ exResult' = [kind |-> "returned", isError |-> TRUE,
                  text |-> ExecutingErrorText(exCall.tool, exCatalog[exCall.tool].thrown),
                  of |-> <<>>, arguments |-> "{}"]
  /\ exCall' = NotCalled
  /\ UNCHANGED <<exCatalog, exInvoked, exMode, exArgs>>
  /\ ExFrame

ExNext ==
  \/ \E t \in ExToolNames \cup {ToolUnknown} : \E a \in ExArguments : ExExecute(t, a)
  \/ ExHandlerReturns
  \/ ExHandlerThrows

-----------------------------------------------------------------------------
(* Static mode: the tools are registered on the server, which validates the *)
(* arguments of a tools/call against the tool's inputSchema before it       *)
(* invokes the handler.                                                     *)

InvalidArgumentsText == <<"I", "n", "v", "a", "l", "i", "d", " ", "a", "r", "g", "u", "m", "e", "n", "t", "s">>

\* A tools/call for a registered tool.
TlCallTool(toolName, arguments) ==
  /\ exMode = "static"
  /\ exCall.pc = "idle"
  /\ Len(exInvoked) < MaxExecutes
  /\ IF ~Found(toolName)
       THEN /\ exResult' = [kind |-> "returned", isError |-> TRUE,
                            text |-> NotFoundText(toolName), of |-> <<>>, arguments |-> "{}"]
            /\ UNCHANGED <<exCall, exInvoked, exArgs>>
       ELSE IF arguments \notin Accepts(toolName)
         THEN /\ exResult' = [kind |-> "returned", isError |-> TRUE,
                              text |-> InvalidArgumentsText, of |-> <<>>, arguments |-> "{}"]
              /\ UNCHANGED <<exCall, exInvoked, exArgs>>
         ELSE /\ exCall' = [pc |-> "awaiting", tool |-> toolName, arguments |-> arguments]
              /\ exInvoked' = Append(exInvoked, toolName)
              /\ exArgs' = Append(exArgs, arguments)
              /\ exResult' = NoOutcome
  /\ UNCHANGED <<exCatalog, exMode>>
  /\ ExFrame

\* The handler of a registered tool throws: the server answers with an error
\* result that carries the message.
TlHandlerThrows ==
  /\ exMode = "static"
  /\ exCall.pc = "awaiting"
  /\ exCatalog[exCall.tool].does = "throws"
  /\ exResult' = [kind |-> "returned", isError |-> TRUE,
                  text |-> MessageOf(exCatalog[exCall.tool].thrown),
                  of |-> <<>>, arguments |-> "{}"]
  /\ exCall' = NotCalled
  /\ UNCHANGED <<exCatalog, exInvoked, exMode, exArgs>>
  /\ ExFrame

TlInit == \E mode \in {"static", "dynamic"} : ExRegistered(mode)

TlNext ==
  \/ ExNext
  \/ \E t \in ExToolNames \cup {ToolUnknown} : \E a \in ExArguments : TlCallTool(t, a)
  \/ TlHandlerThrows


-----------------------------------------------------------------------------
(* Specifications.                                                         *)

ClientIdle == RqIdle /\ now = 0 /\ cache = EmptyCache /\ CcIdle /\ ClIdle /\ PgIdle
ToolsIdle == FpIdle /\ RcIdle /\ SbIdle /\ ExIdle /\ NzIdle

InitRequest == RqInit /\ now = 0 /\ cache = EmptyCache /\ CcIdle /\ ClIdle /\ PgIdle /\ ToolsIdle
NextRequest == RqNext
SpecRequest == InitRequest /\ [][NextRequest]_vars

InitCache == RqIdle /\ CcInit /\ ClIdle /\ PgIdle /\ ToolsIdle
NextCache == CcNext
SpecCache == InitCache /\ [][NextCache]_vars

InitClient == RqIdle /\ CcIdle /\ ClInit /\ PgIdle /\ ToolsIdle
NextClient == ClNext
SpecClient == InitClient /\ [][NextClient]_vars

InitPaging == RqIdle /\ now = 0 /\ cache = EmptyCache /\ CcIdle /\ ClIdle /\ PgInit /\ ToolsIdle
NextPaging == PgNext
SpecPaging == InitPaging /\ [][NextPaging]_vars

InitFingerprint == ClientIdle /\ FpInit /\ RcIdle /\ SbIdle /\ ExIdle /\ NzIdle
NextFingerprint == FpNext
SpecFingerprint == InitFingerprint /\ [][NextFingerprint]_vars

InitReconcile == ClientIdle /\ FpIdle /\ RcInit /\ SbIdle /\ ExIdle /\ NzIdle
NextReconcile == RcNext
SpecReconcile == InitReconcile /\ [][NextReconcile]_vars

InitSubscribe == ClientIdle /\ FpIdle /\ RcIdle /\ SbInit /\ ExIdle /\ NzIdle
NextSubscribe == SbNext
SpecSubscribe == InitSubscribe /\ [][NextSubscribe]_vars

InitExecute == ClientIdle /\ FpIdle /\ RcIdle /\ SbIdle /\ ExInit /\ NzIdle
NextExecute == ExNext
SpecExecute == InitExecute /\ [][NextExecute]_vars

InitCutover == InitReconcile
NextCutover == CvNext
SpecCutover == InitCutover /\ [][NextCutover]_vars

InitTools == ClientIdle /\ FpIdle /\ RcIdle /\ SbIdle /\ NzIdle /\ TlInit
NextTools == TlNext
SpecTools == InitTools /\ [][NextTools]_vars

InitNormalize == ClientIdle /\ FpIdle /\ RcIdle /\ SbIdle /\ ExIdle /\ NzInit
NextNormalize == NzNext
SpecNormalize == InitNormalize /\ [][NextNormalize]_vars

-----------------------------------------------------------------------------
(* Properties of the cache (SpecCache).                                    *)

\* C2: get(k) returns the value v of the latest set(k, v, ttl) if and only if
\* now < stored-at + ttl (and k was not invalidated since); once the entry has
\* expired, or when ttl is 0, get(k) is a miss and leaves no entry for k.
C2_GetSeesUnexpiredSet ==
  ccGot.op = "get" =>
    LET k == ccGot.key
        latest == ccLatest[k]
        live == latest # NoSet /\ now < latest.storedAt + latest.ttl
    IN /\ ccGot.value = (IF live THEN latest.value ELSE Absent)
       /\ (latest # NoSet /\ latest.ttl = 0) => ccGot.value = Absent
       /\ ccGot.value = Absent => cache[k] = NoEntry

\* A get() that misses on an entry set with a positive ttl, now expired.
C2_Witness ==
  /\ ccGot.op = "get"
  /\ ccGot.value = Absent
  /\ ccLatest[ccGot.key] # NoSet
  /\ ccLatest[ccGot.key].ttl > 0
  /\ now >= ccLatest[ccGot.key].storedAt + ccLatest[ccGot.key].ttl
  /\ cache[ccGot.key] = NoEntry

\* The first Len(p) components of key k are those of p.
KeyBeginsWith(k, p) == Len(p) <= Len(k) /\ \A i \in 1..Len(p) : k[i] = p[i]

\* C3: invalidatePrefix(p) removes exactly the entries whose key starts with
\* p: afterwards no key starting with p has an entry, and every other key has
\* the entry (value and expiry) it had before.
C3_InvalidatesExactlyPrefix ==
  [][\A p \in Prefixes :
       CcInvalidatePrefix(p) =>
         \A k \in Keys :
           /\ KeyBeginsWith(k, p) => cache'[k] = NoEntry
           /\ ~KeyBeginsWith(k, p) => cache'[k] = cache[k]]_vars

\* invalidatePrefix(<<"dns">>) has just removed an entry and kept the entry
\* of the "domain" family.
C3_Witness ==
  /\ ccGot.op = "invalidatePrefix"
  /\ ccGot.key = <<"dns">>
  /\ ccGot.value >= 1
  /\ cache[<<"domain", "d1">>] # NoEntry

-----------------------------------------------------------------------------
(* Properties of cached reads and invalidating writes (SpecClient).        *)

\* C4: a cacheable read that finds an unexpired entry for its key returns the
\* cached value with zero upstream calls; otherwise it makes the upstream
\* call, and on its return stores the fetched result under that key with the
\* configured ttl and returns that result.
C4_ReadThrough ==
  [][/\ \A r \in Readers, k \in Keys :
          ClReadStart(r, k) =>
            IF cache[k] # NoEntry /\ now < cache[k].expiresAt
              THEN /\ clReaders'[r].pc = "done"
                   /\ clReaders'[r].result = cache[k].value
                   /\ clReaders'[r].calls = 0
              ELSE /\ clReaders'[r].pc = "awaiting"
                   /\ clReaders'[r].calls = 1
     /\ \A r \in Readers :
          ClReadReturn(r) =>
            /\ clReaders'[r].calls = 1
            /\ clReaders'[r].result = clReaders[r].fetched
            /\ cache'[clReaders[r].key] =
                 [value |-> clReaders[r].fetched, expiresAt |-> now + clTtl]]_vars

\* One read missed, fetched and stored; the other then hit the same key
\* without an upstream call.
C4_Witness ==
  \E r, o \in Readers :
    /\ r # o
    /\ clReaders[r].pc = "done" /\ clReaders[r].calls = 1
    /\ clReaders[o].pc = "done" /\ clReaders[o].calls = 0
    /\ clReaders[o].key = clReaders[r].key
    /\ clReaders[o].result = clReaders[r].result

\* C5: when a write to a domain's DNS records returns, the cache holds no
\* entry of that domain's record-list namespace (so none stored before the
\* write was issued), and the entries of every other namespace are untouched.
C5_WriteInvalidates ==
  [][ClWriteReturn =>
       \A k \in Keys :
         IF k[1] = "dns" /\ k[2] = clWriter.domain
           THEN cache'[k] = NoEntry
           ELSE cache'[k] = cache[k]]_vars

\* A write to d1 has returned, having cleared d1's cached record list while
\* the cached domain detail is still there.
C5_Witness ==
  /\ clWriter.pc = "returned"
  /\ clWriter.domain = "d1"
  /\ clWriter.cleared = 1
  /\ cache[<<"dns", "d1", "0">>] = NoEntry
  /\ cache[<<"domain", "d1">>] # NoEntry

\* C10 as claimed: two reads in flight at once for the same key, both having
\* missed the cache, populate the cache with the same value.
C10_AsClaimed ==
  \A r, o \in Readers :
    (r # o /\ clReaders[r].pc = "served" /\ clReaders[o].pc = "served"
       /\ clReaders[r].key = clReaders[o].key)
      => clReaders[r].fetched = clReaders[o].fetched

\* C10 amended: two reads in flight at once for the same key each made their
\* own upstream call (no single-flight), and each stores the value its own
\* fetch returned, so the entry left after both is that of the read that
\* returned last; the two values differ only when the upstream data changed
\* between the two fetches (a DNS write was applied in between).
C10_NoSingleFlight ==
  [][\A r \in Readers :
       ClReadReturn(r) =>
         /\ clReaders[r].calls = 1
         /\ cache'[clReaders[r].key].value = clReaders[r].fetched
         /\ \A o \in Readers \ {r} :
              (clReaders[o].pc = "served" /\ clReaders[o].key = clReaders[r].key) =>
                /\ clReaders[o].calls = 1
                /\ clReaders[o].fetched # clReaders[r].fetched =>
                     /\ clReaders[r].key[1] = "dns"
                     /\ clReaders[r].fetched <= clUpstream[clReaders[r].key[2]]
                     /\ clReaders[o].fetched <= clUpstream[clReaders[r].key[2]]
                     /\ clUpstream[clReaders[r].key[2]] > 0]_vars

\* Both reads of the same key went to the upstream, and they returned (and
\* stored) different values.
C10_Witness ==
  /\ clReaders["r1"].pc = "done" /\ clReaders["r1"].calls = 1
  /\ clReaders["r2"].pc = "done" /\ clReaders["r2"].calls = 1
  /\ clReaders["r1"].key = clReaders["r2"].key
  /\ clReaders["r1"].result # clReaders["r2"].result

-----------------------------------------------------------------------------
(* Properties of SpaceshipClient.request (SpecRequest).                    *)

RECURSIVE LeadingThrottles(_)
LeadingThrottles(script) ==
  IF script # <<>> /\ Head(script).kind = "response" /\ Head(script).status = 429
    THEN 1 + LeadingThrottles(Tail(script))
    ELSE 0

\* The number k of consecutive throttling responses the upstream gives to
\* this request, counted from its first call.
ThrottleRun == rqThrottled + LeadingThrottles(rqScript)

HardFailure(resp) ==
  \/ resp.kind = "networkFailure"
  \/ resp.kind = "response" /\ resp.status # 429 /\ ~(resp.status >= 200 /\ resp.status <= 299)

\* The body an error carries for a response: the parsed JSON or the text.
CarriedBody(resp) ==
  CASE resp.ctype = "json" /\ resp.raw = "object" -> "OBJECT"
    [] resp.ctype = "json" /\ resp.raw = "null" -> "NULL"
    [] resp.ctype = "text" /\ resp.raw # "unreadable" -> resp.raw
    [] OTHER -> "?"

\* C8 as claimed: every non-throttling failure, a transport failure included,
\* ends the request after exactly one upstream call with a typed failure that
\* carries the HTTP status code and the response body.
C8_AsClaimed ==
  (rqPc = "done" /\ rqThrottled = 0 /\ HardFailure(rqLast)) =>
    /\ rqCalls = 1
    /\ rqResult.kind = "SpaceshipApiError"
    /\ rqResult.status = rqLast.status
    /\ ~IsMalformed(rqLast) => rqResult.body = CarriedBody(rqLast)

\* C8 amended: a hard failure is never retried (no upstream call follows it:
\* one call per throttling response before it, plus its own).  A non-2xx,
\* non-429 response is thrown as SpaceshipApiError with the status and the
\* body as parsed (null for JSON that does not parse, "" for a body that
\* cannot be read); a transport failure leaves as the transport's own
\* rejection, with no status and no body.
C8_HardFailureNotRetried ==
  (rqPc = "done" /\ HardFailure(rqLast)) =>
    /\ rqCalls = rqThrottled + 1
    /\ rqAttempt = rqThrottled
    /\ rqLast.kind = "response" =>
         /\ rqResult.kind = "SpaceshipApiError"
         /\ rqResult.status = rqLast.status
         /\ rqResult.body =
              IF ~IsMalformed(rqLast) THEN CarriedBody(rqLast)
              ELSE IF rqLast.ctype = "json" THEN "NULL" ELSE ""
    /\ rqLast.kind = "networkFailure" =>
         /\ rqResult.kind = "TypeError"
         /\ rqResult.status = 0
         /\ rqResult.body = ""

\* A 500 with a JSON body as the first response: one call, status and body carried.
C8_Witness ==
  /\ rqPc = "done"
  /\ rqCalls = 1
  /\ rqLast.kind = "response"
  /\ rqLast.status = 500
  /\ rqResult = [kind |-> "SpaceshipApiError", status |-> 500, body |-> "OBJECT"]

\* C9: a response whose body cannot be parsed is surfaced as a failure, never
\* returned as a successful (null or empty) result.
C9_MalformedIsSurfaced ==
  (rqPc = "done" /\ rqLast.kind = "response" /\ IsMalformed(rqLast)
     /\ rqLast.status >= 200 /\ rqLast.status <= 299)
    => rqResult.kind # "ok"

-----------------------------------------------------------------------------
(* Properties of listAllDnsRecords (SpecPaging).                           *)

\* Every fetch was issued at the offset equal to the number of records
\* returned by the fetches before it, and what is accumulated is the upstream's
\* records up to that offset, in order.
OffsetsFollowItems ==
  /\ \A i \in 1..Len(pgOffsets) :
       pgOffsets[i] = Min((i - 1) * Min(pageSize, pgCap), pgN)
  /\ pgPc = "awaiting" => pgOffsets[Len(pgOffsets)] = Len(pgAll)
  /\ Len(pgAll) <= pgN
  /\ \A i \in 1..Len(pgAll) : pgAll[i] = i

\* C6 as claimed: over an upstream holding N records and reporting that total,
\* exactly ceil(N / P) page fetches are issued, for every N >= 0, and exactly
\* the N records are returned in upstream order.
C6_AsClaimed ==
  (pgPc = "done" /\ pgReported = pgN /\ pgCap = pageSize) =>
    /\ Len(pgOffsets) = CeilDiv(pgN, pageSize)
    /\ pgAll = UpstreamRecords(pgN)

\* C6 amended: over an upstream holding N records, reporting that total and
\* serving pages of P records, exactly ceil(N / P) page fetches are issued
\* when N >= 1 and exactly one (the fetch that finds the upstream empty) when
\* N = 0; exactly the N records are returned, in upstream order, none skipped
\* or duplicated; and the offset of each fetch equals the number of records
\* returned so far.
C6_PagesAndOrder ==
  /\ OffsetsFollowItems
  /\ (pgPc = "done" /\ pgReported = pgN) =>
       /\ pgCap = pageSize =>
            Len(pgOffsets) = (IF pgN = 0 THEN 1 ELSE CeilDiv(pgN, pageSize))
       /\ Len(pgAll) = pgN
       /\ \A i \in 1..pgN : pgAll[i] = i

\* 501 records: two fetches, at offsets 0 and 500, all 501 records returned.
C6_Witness ==
  /\ pgPc = "done"
  /\ pgCap = pageSize
  /\ pgN = pageSize + 1
  /\ pgReported = pgN
  /\ pgOffsets = <<0, pageSize>>
  /\ Len(pgAll) = pgN

\* C7: aggregation stops as soon as a page returns zero items, whatever total
\* the upstream reports, and returns the records accumulated so far: at most
\* one fetch ever returns an empty page, no fetch follows it, so at most
\* ceil(N / page length) + 1 fetches are issued however large the reported
\* total is.
C7_EmptyPageStops ==
  LET empty == {i \in 1..Len(pgOffsets) : pgOffsets[i] >= pgN} IN
    /\ Cardinality(empty) <= 1
    /\ Len(pgOffsets) <= CeilDiv(pgN, Min(pageSize, pgCap)) + 1
    /\ (empty # {} /\ pgPc # "awaiting") =>
         /\ pgPc \in {"done", "failed"}
         /\ pgPc = "done" => (Len(pgAll) = pgN /\ \A i \in 1..pgN : pgAll[i] = i)

\* A full page of records and a reported total of twice that: the second
\* fetch returns nothing and ends the aggregation although skip < total.
C7_Witness ==
  /\ pgPc = "done"
  /\ pgCap = pageSize
  /\ pgN = pageSize
  /\ pgReported = 2 * pageSize
  /\ pgSkip < pgTotal
  /\ Len(pgOffsets) = 2
  /\ Len(pgAll) = pgN

-----------------------------------------------------------------------------
(* Properties of recordFingerprint (SpecFingerprint).                      *)

\* The edited field as it reads without the dot the last edit added or removed.
DotlessField ==
  IF fpOp.kind = "addDot"
    THEN SubSeq(fpRec[fpOp.field], 1, Len(fpRec[fpOp.field]) - 1)
    ELSE fpRec[fpOp.field]

EndsInDotOrSpace(s) == Len(s) > 0 /\ s[Len(s)] \in ({"."} \cup Whitespace)

\* C11 as claimed: changing the letter case of type, name or a host field, or
\* adding or removing one trailing dot on name or a host field, never changes
\* the fingerprint.
C11_AsClaimed ==
  fpOp.kind \in {"case", "addDot", "removeDot"} => fpPrint = fpBefore

\* C11 amended: a change of letter case in type, name or a host field never
\* changes the fingerprint, and neither does adding or removing one trailing
\* dot on name or a host field, provided the field without that dot does not
\* itself end in a dot or in whitespace.
C11_CaseAndDotInsensitive ==
  /\ fpOp.kind = "case" => fpPrint = fpBefore
  /\ fpOp.kind \in {"addDot", "removeDot"} /\ ~EndsInDotOrSpace(DotlessField)
       => fpPrint = fpBefore

\* A CNAME record whose type was written in another case and whose cname then
\* got a trailing dot: the fingerprint stayed what it was.
C11_Witness ==
  /\ fpEdits = 2
  /\ fpOp = [kind |-> "addDot", field |-> "cname"]
  /\ fpRec.type # TypeCNAME
  /\ toUpperCase(fpRec.type) = TypeCNAME
  /\ ~EndsInDotOrSpace(DotlessField)
  /\ fpPrint = fpBefore

\* The fingerprints, ttl included, of the records of FpRecords.
FpRecordPrints == { [ttl |-> r.ttl, print |-> recordFingerprint(r, TRUE)] : r \in FpRecords }

\* C12: with includeTtl false a change of ttl alone (its removal included)
\* leaves the fingerprint as it was; with includeTtl true a change of ttl
\* changes the fingerprint, and no record with another ttl has the same
\* fingerprint.
C12_TtlOnlyWhenRequested ==
  /\ fpOp.kind = "ttl" /\ ~fpIncludeTtl => fpPrint = fpBefore
  /\ fpOp.kind = "ttl" /\ fpIncludeTtl => fpPrint # fpBefore
  /\ fpIncludeTtl =>
       \A p \in FpRecordPrints : p.ttl # fpRec.ttl => p.print # fpPrint

\* The ttl of a record was removed while ttl is ignored: same fingerprint.
C12_Witness ==
  /\ fpOp.kind = "ttl"
  /\ ~fpIncludeTtl
  /\ fpRec.ttl = UndefinedNumber
  /\ fpPrint = fpBefore
  /\ fpPrint # <<>>

-----------------------------------------------------------------------------
(* Properties of the reconciliation tools (SpecReconcile).                 *)

\* The calls of each tool that returned a result.
AlignmentCalls ==
  { k \in 1..Len(rcResult) : rcResult[k].tool = "check_dns_alignment" /\ ~rcResult[k].isError }
CutoverCalls ==
  { k \in 1..Len(rcResult) : rcResult[k].tool = "analyze_fly_cutover" /\ ~rcResult[k].isError }

SamePrint(a, b, includeTtl) == recordFingerprint(a, includeTtl) = recordFingerprint(b, includeTtl)

\* A live record is of a selected type.
Selected(record, args) == toUpperCase(record.type) \in args.includeUnexpectedOfTypes

\* The live records of the selected types that no expected record matches.
UnmatchedLive(args) ==
  SelectSeq(rcLive, LAMBDA r :
    /\ Selected(r, args)
    /\ \A j \in 1..Len(args.expectedRecords) :
         ~SamePrint(r, args.expectedRecords[j], args.includeTtlInMatch))

IsRootOrWwwWeb(record) ==
  /\ toUpperCase(record.type) \in {TypeA, TypeAAAA, TypeCNAME, TypeALIAS}
  /\ normalizeName(record.name) \in {NameRoot, NameWww}

\* C14: upserts are exactly the desired records whose fingerprint (ttl
\* ignored) no current root/www web record has, deletes exactly the current
\* root/www web records whose fingerprint no desired record has.
C14_PlanByFingerprint ==
  \A k \in CutoverCalls :
    LET desired == Desired(rcArgs[k]) IN
    /\ rcResult[k].proposedUpserts =
         MapSeq(extractComparableFields,
                SelectSeq(desired, LAMBDA d :
                  \A i \in 1..Len(rcLive) :
                    IsRootOrWwwWeb(rcLive[i]) => ~SamePrint(d, rcLive[i], FALSE)))
    /\ rcResult[k].proposedDeletes =
         MapSeq(extractComparableFields,
                SelectSeq(rcLive, LAMBDA r :
                  /\ IsRootOrWwwWeb(r)
                  /\ \A j \in 1..Len(desired) : ~SamePrint(r, desired[j], FALSE)))

\* Desired [A @ 10.0.0.1] against live [CNAME www old.vercel.app, A @ 9.9.9.9]:
\* that A record is the only upsert and both live records are deletes.
C14_Witness ==
  /\ rcLive = <<RecordCNAME(NameWww, VercelHost), RecordA(NameRoot, ResolverIp)>>
  /\ \E k \in CutoverCalls :
       /\ Desired(rcArgs[k]) = <<RecordA(NameRoot, FlyIp)>>
       /\ rcResult[k].proposedUpserts = <<RecordA(NameRoot, FlyIp)>>
       /\ rcResult[k].proposedDeletes = rcLive

\* C15: a cutover analysis sends only list (GET) requests, leaves the live
\* records as they are, and the Vercel verdict does not decide what is
\* proposed: a live web record is deleted exactly when no desired record has
\* its fingerprint and a desired record upserted exactly when no live web
\* record has its fingerprint, whether or not Vercel records were detected.
C15_VerdictLeavesPlan ==
  \A k \in CutoverCalls :
    LET desired == Desired(rcArgs[k])
        deleted == Elements(rcResult[k].proposedDeletes)
        upserted == Elements(rcResult[k].proposedUpserts)
    IN /\ rcResult[k].likelyVercel \in BOOLEAN
       /\ \A i \in 1..Len(rcLive) :
            IsRootOrWwwWeb(rcLive[i]) =>
              (extractComparableFields(rcLive[i]) \in deleted
                 <=> \A j \in 1..Len(desired) : ~SamePrint(rcLive[i], desired[j], FALSE))
       /\ \A j \in 1..Len(desired) :
            extractComparableFields(desired[j]) \in upserted
              <=> \A i \in 1..Len(rcLive) :
                    IsRootOrWwwWeb(rcLive[i]) => ~SamePrint(rcLive[i], desired[j], FALSE)

C15_ReadOnly ==
  /\ [](\A c \in 1..Len(rcCalls) : rcCalls[c] = "GET")
  /\ [](C15_VerdictLeavesPlan)
  /\ [][rcLive' = rcLive]_vars

\* Vercel records were detected, the one live record is what is desired: it
\* is kept, nothing is proposed, and one GET was sent.
C15_Witness ==
  /\ rcLive = <<RecordA(NameRoot, VercelIp)>>
  /\ rcCalls = <<"GET">>
  /\ \E k \in CutoverCalls :
       /\ rcResult[k].likelyVercel
       /\ rcArgs[k].flyApexA = VercelIp
       /\ rcResult[k].proposedDeletes = <<>>
       /\ rcResult[k].proposedUpserts = <<>>

\* C16: every proposed delete is a live record of type A, AAAA, CNAME or ALIAS
\* with normalized name @ or www, and every live record is counted either in
\* currentWebRecords or in preservedNonWebRecordCounts, never in both.
C16_PreservesUnrelated ==
  \A k \in CutoverCalls :
    LET others == { i \in 1..Len(rcLive) : ~IsRootOrWwwWeb(rcLive[i]) }
        counts == rcResult[k].preservedNonWebRecordCounts
    IN /\ \A d \in Elements(rcResult[k].proposedDeletes) :
            \E i \in 1..Len(rcLive) :
              IsRootOrWwwWeb(rcLive[i]) /\ extractComparableFields(rcLive[i]) = d
       /\ rcResult[k].currentWebRecords =
            MapSeq(extractComparableFields, SelectSeq(rcLive, IsRootOrWwwWeb))
       /\ DOMAIN counts = { toUpperCase(rcLive[i].type) : i \in others }
       /\ \A t \in DOMAIN counts :
            counts[t] = Cardinality({ i \in others : toUpperCase(rcLive[i].type) = t })

\* A web-typed record of another owner name next to a root record: only the
\* root record is proposed for deletion, the other is counted as preserved.
C16_Witness ==
  /\ rcLive = <<RecordA(NameApi, ResolverIp), RecordA(NameRoot, ResolverIp)>>
  /\ \E k \in CutoverCalls :
       /\ rcResult[k].proposedDeletes = <<RecordA(NameRoot, ResolverIp)>>
       /\ rcResult[k].currentWebRecords = <<RecordA(NameRoot, ResolverIp)>>
       /\ rcResult[k].preservedNonWebRecordCounts[TypeA] = 1

-----------------------------------------------------------------------------
(* Properties of resource subscriptions (SpecSubscribe).                   *)

\* C17: however many subscribe requests arrive for a uri, and whenever, with
\* no unsubscribe in between, exactly one initial fetch is made and at most
\* one polling timer exists for the uri.
C17_NoDoubleSubscribe ==
  \A u \in Uris :
    sbLog[u].subscribes >= 1 /\ ~sbLog[u].unsubscribedBefore =>
      /\ sbLog[u].initialFetches = 1
      /\ Cardinality(TimersOf(u)) <= 1

\* C18: once an unsubscribe request for a uri, or cleanup, has returned, no
\* polling timer for the uri remains and no fetch or resource-updated
\* notification for it follows until it is subscribed again, whatever the
\* state of the initial fetch at that moment.
C18_UnsubscribeStopsPolling ==
  \A u \in Uris :
    sbLog[u].unsubscribed =>
      /\ TimersOf(u) = {}
      /\ sbLog[u].fetchesAfter = 0
      /\ sbLog[u].notesAfter = 0

\* C19: a poll of a subscribed uri sends a resource-updated notification when
\* the fetched data differs from the data the previous successful fetch
\* returned, and none when the data is the same.
C19_ChangeDetection ==
  \A u \in Uris :
    sbLog[u].lastPoll.done => (sbLog[u].lastPoll.notified <=> sbLog[u].lastPoll.changed)

-----------------------------------------------------------------------------
(* Properties of execute_tool (SpecExecute).                               *)

NotFoundWords == <<"n", "o", "t", " ", "f", "o", "u", "n", "d">>

-----------------------------------------------------------------------------
(* The comparable value per record type (SpecFingerprint).                 *)

Lowered(host) == toLowerCase(StripTrailingDot(trim(host)))
UpperType == toUpperCase(fpRec.type)

-----------------------------------------------------------------------------
(* Repeated normalization (SpecNormalize).                                 *)

EndsInDotOrWhitespace(s) == s # <<>> /\ (s[Len(s)] = "." \/ s[Len(s)] \in Whitespace)

\* C30 as stated: normalize(normalize(s)) = normalize(s) for every string s.
C30_AsClaimed == Len(nzTrace) >= 3 => nzTrace[3] = nzTrace[2]

\* C30 amended: a second normalization changes nothing when the first result
\* does not end in a dot or in whitespace, and only then.
C30_IdempotentOnSettled ==
  Len(nzTrace) >= 3 => (nzTrace[3] = nzTrace[2] <=> ~EndsInDotOrWhitespace(nzTrace[2]))

\* " A. " has been normalized twice: "a" both times.
C30_Witness ==
  /\ Len(nzTrace) = 3
  /\ nzTrace[1] = <<" ", "A", ".">>
  /\ nzTrace[2] = <<"a">>
  /\ nzTrace[3] = <<"a">>

-----------------------------------------------------------------------------
(* Duplicates and the type filter in check_dns_alignment (SpecReconcile).  *)

\* The positions of the live records with the fingerprint of expected record e.
LiveTwins(e, includeTtl) == { i \in 1..Len(rcLive) : SamePrint(e, rcLive[i], includeTtl) }

Reported(record, list) == extractComparableFields(record) \in Elements(list)

\* C23 as stated: when several live records have the fingerprint of an
\* expected record, none of them is in unexpected and the expected record is
\* not in missing.
C23_AsClaimed ==
  \A k \in AlignmentCalls :
    \A j \in 1..Len(rcArgs[k].expectedRecords) :
      LET e == rcArgs[k].expectedRecords[j]
          twins == LiveTwins(e, rcArgs[k].includeTtlInMatch)
      IN Cardinality(twins) >= 2 =>
           /\ ~Reported(e, rcResult[k].missing)
           /\ \A i \in twins : ~Reported(rcLive[i], rcResult[k].unexpected)

\* C23 amended: the same, for live records of a type selected by
\* includeUnexpectedOfTypes.
C23_DuplicatesMatched ==
  \A k \in AlignmentCalls :
    \A j \in 1..Len(rcArgs[k].expectedRecords) :
      LET e == rcArgs[k].expectedRecords[j]
          twins == LiveTwins(e, rcArgs[k].includeTtlInMatch)
      IN Cardinality(twins) >= 2 /\ Selected(e, rcArgs[k]) =>
           /\ ~Reported(e, rcResult[k].missing)
           /\ \A i \in twins : ~Reported(rcLive[i], rcResult[k].unexpected)

\* Live [A @ 9.9.9.9, A @ 9.9.9.9 ttl 300] against expected [A @ 9.9.9.9],
\* ttl ignored: nothing is missing and nothing is unexpected.
C23_Witness ==
  /\ rcLive = <<RecordA(NameRoot, ResolverIp), WithTtl(RecordA(NameRoot, ResolverIp), 300)>>
  /\ \E k \in AlignmentCalls :
       /\ rcArgs[k].expectedRecords = <<RecordA(NameRoot, ResolverIp)>>
       /\ ~rcArgs[k].includeTtlInMatch
       /\ rcResult[k].missing = <<>>
       /\ rcResult[k].unexpected = <<>>

\* C27 as stated: an expected record with the fingerprint of some live record
\* is never in missing, whatever the selected types.
C27_AsClaimed ==
  \A k \in AlignmentCalls :
    \A j \in 1..Len(rcArgs[k].expectedRecords) :
      LET e == rcArgs[k].expectedRecords[j] IN
      LiveTwins(e, rcArgs[k].includeTtlInMatch) # {} => ~Reported(e, rcResult[k].missing)

\* C27 amended: an expected record of a selected type with the fingerprint of
\* some live record is never in missing; an expected record whose type is not
\* selected is always in missing.
C27_MissingFollowsFilter ==
  \A k \in AlignmentCalls :
    \A j \in 1..Len(rcArgs[k].expectedRecords) :
      LET e == rcArgs[k].expectedRecords[j] IN
      /\ LiveTwins(e, rcArgs[k].includeTtlInMatch) # {} /\ Selected(e, rcArgs[k])
           => ~Reported(e, rcResult[k].missing)
      /\ ~Selected(e, rcArgs[k]) => Reported(e, rcResult[k].missing)

\* Live [MX @ mail, A @ 9.9.9.9] against the same two expected records with
\* only A selected: the MX record is missing, the A record is not.
C27_Witness ==
  /\ rcLive = <<RecordMX(NameRoot, MailHost, 10), RecordA(NameRoot, ResolverIp)>>
  /\ \E k \in AlignmentCalls :
       /\ rcArgs[k].expectedRecords =
            <<RecordMX(NameRoot, MailHost, 10), RecordA(NameRoot, ResolverIp)>>
       /\ rcArgs[k].includeUnexpectedOfTypes = {TypeA}
       /\ rcResult[k].missing = <<extractComparableFields(RecordMX(NameRoot, MailHost, 10))>>
       /\ rcResult[k].unexpected = <<>>

-----------------------------------------------------------------------------
(* Applying the cutover plan (SpecCutover).                                *)

LastCall == Len(rcResult)

\* C28: the plan converges. Once the plan of an analysis is applied, the
\* fingerprints of the root/www web records are exactly the desired
\* fingerprints, and an analysis of that result with the same inputs proposes
\* no upserts and no deletes.
C28_PlanConverges ==
  /\ LastCall \in rcAppliedAt =>
       { recordFingerprint(r, FALSE) : r \in Elements(SelectSeq(rcLive, IsRootOrWwwWeb)) }
         = { recordFingerprint(d, FALSE) : d \in Elements(Desired(rcArgs[LastCall])) }
  /\ \A k \in 2..LastCall :
       (k - 1) \in rcAppliedAt /\ rcArgs[k] = rcArgs[k - 1] =>
         /\ rcResult[k].proposedUpserts = <<>>
         /\ rcResult[k].proposedDeletes = <<>>

\* A first analysis proposed one upsert and one delete, its plan was applied,
\* and the second analysis with the same inputs proposes nothing.
C28_Witness ==
  /\ LastCall = 2
  /\ 1 \in rcAppliedAt
  /\ rcArgs[2] = rcArgs[1]
  /\ rcResult[1].proposedUpserts = <<RecordA(NameRoot, FlyIp)>>
  /\ rcResult[1].proposedDeletes = <<RecordA(NameRoot, VercelIp)>>
  /\ rcResult[2].proposedUpserts = <<>>
  /\ rcResult[2].proposedDeletes = <<>>
  /\ rcLive = <<RecordMX(NameRoot, MailHost, 10), RecordA(NameRoot, FlyIp)>>

-----------------------------------------------------------------------------
(* Failing fetches and overlapping polls (SpecSubscribe).                  *)

PollsInFlight(u) == { f \in sbFetches : f.uri = u /\ f.kind = "poll" }

\* C24: a poll whose fetch fails is swallowed. The step sends no
\* notification and changes nothing but the fetch itself: the subscriptions
\* map (lastHash, timer), the timers and the rest of the server are as
\* before, so the timer of the subscription goes on firing.
C24_FailedPollSwallowed ==
  [][\A u \in Uris :
       sbLog'[u].failedPolls > sbLog[u].failedPolls =>
         /\ sbLog'[u].notes = sbLog[u].notes
         /\ sbSubs' = sbSubs
         /\ sbTimers' = sbTimers
         /\ sbSubs[u].has => \E t \in sbTimers' : t.id = sbSubs'[u].timer /\ t.uri = u
         /\ UNCHANGED <<clientVars, fpVars, rcVars, exVars, nzVars, sbData, sbSeen>>]_vars

\* A poll of a subscription failed and a later poll succeeded; the timer is
\* still the one the subscription started with.
C24_Witness ==
  \E u \in Uris :
    /\ sbLog[u].subscribes = 1
    /\ sbLog[u].failedPolls = 1
    /\ sbLog[u].lastPoll.done
    /\ sbLog[u].lastApplied > 0
    /\ sbSubs[u].has
    /\ TimersOf(u) = {[id |-> sbSubs[u].timer, uri |-> u]}
    /\ sbFetches = {}

\* C25: when the initial fetch of a new subscription has failed, the
\* subscription is recorded with an empty lastHash and a live timer until a
\* poll succeeds, and the first poll that succeeds afterwards sends a
\* notification.
C25_FailedInitialStillPolls ==
  \A u \in Uris :
    /\ sbLog[u].initialFailed =>
         /\ sbSubs[u].has
         /\ sbSubs[u].lastHash = EmptyHash
         /\ [id |-> sbSubs[u].timer, uri |-> u] \in sbTimers
    /\ sbLog[u].lastPoll.firstAfterFailure => sbLog[u].lastPoll.notified

\* C29: polls of one subscribed URI never overlap. At most one poll fetch of
\* a URI is in flight, and poll responses are applied in the order the polls
\* were issued.
C29_PollsNeverOverlap ==
  \A u \in Uris :
    /\ Cardinality(PollsInFlight(u)) <= 1
    /\ ~sbLog[u].outOfOrder

-----------------------------------------------------------------------------
(* Reads that start after a DNS write has returned (SpecClient).           *)

\* C26: no stale repopulation after a write. A cacheable read of a domain's
\* records that starts once a DNS write of that domain has returned never
\* returns data older than what the write left at the upstream, also when
\* another read of the same key was in flight during the write.
C26_NoStaleRepopulation ==
  [][\A r \in Readers : \A k \in Keys :
       (/\ ClReadStart(r, k)
        /\ k[1] = "dns"
        /\ clWriter.pc = "returned"
        /\ clWriter.domain = k[2]
        /\ clReaders'[r].pc = "done")
         => clReaders'[r].result >= clUpstream[k[2]]]_vars

-----------------------------------------------------------------------------
(* Validation of tool arguments in both modes (SpecTools).                 *)

\* C21: in static mode and in dynamic mode alike, a tool's handler is invoked
\* only with arguments that the tool's own input schema accepts.
C21_OnlyValidatedArguments ==
  \A i \in 1..Len(exInvoked) : exArgs[i] \in Accepts(exInvoked[i])

====
